---- MODULE Spec2Model ----
(***************************************************************************)
(* A model of f9-file-backend: the Process Lock (locking.py), the Sync     *)
(* Engine and its Session Policy (git_backend.py) and the path safety of   *)
(* the Local Store (local.py).  Three specifications share the module:     *)
(*   SpecLock   threads and lock records contending for one lock file      *)
(*   SpecGit    one caller driving a GitSyncFileBackend against a remote   *)
(*   SpecStore  Local Store operations on a small file system              *)
(***************************************************************************)
EXTENDS Integers, Sequences, FiniteSets, TLC

\* ------------------------------------------------------------------ bounds
\* Largest finite timeout (in clock ticks) passed to acquire.
MaxTimeout == 1
\* Deepest nesting of `with lock.acquire()` blocks in one thread.
MaxDepth == 2
\* File handles the operating system hands out at the same time.
MaxHandles == 2
\* Commits that exist in the local and the remote repository together.
MaxCommits == 4
\* Commits another clone pushes to the remote branch.
MaxRemoteWrites == 1
\* Longest list of paths passed to checksum_many.
MaxBatch == 2
\* Most bytes a file grows to by appending.
MaxFileLen == 3
\* Largest chunk_size passed to stream_read.
MaxChunkSize == 2
\* Most slashes put in front of a path.
MaxSlashes == 2
\* Most entries in the output of git status.
MaxEntries == 2

\* DEFAULT_CHUNK_SIZE
DefaultChunkSize == 8192

None == "None"
\* timeout=None (no timeout) and _lock_file = None (no handle), as numbers.
NoTimeout == -1
NoHandle == 0
\* No commit: a branch or a ref that does not exist.
NoCommit == 0

\* ------------------------------------------------------------------ state
VARIABLES
    \* --- Process Lock (locking.py)
    recOf,        \* thread -> the FileLock instance it uses
    pidOf,        \* thread -> os.getpid() of its process
    lock,         \* FileLock instance -> [file, count, owner]
    openFiles,    \* open file descriptions of the lock file
    flockHolder,  \* the open file description holding flock(LOCK_EX), or None
    pc,           \* thread -> where it is in acquire / the with body
    depth,        \* thread -> number of with-bodies it is inside
    timeout,      \* thread -> timeout argument of its current acquire call
    elapsed,      \* thread -> time.time() - start_time of the current call
    attempts,     \* thread -> lock attempts of the current call: none, one, many
    outcome,      \* thread -> how its last acquire call or with-body ended
    \* --- Sync Engine and Session Policy (git_backend.py)
    autoPull,     \* self._auto_pull
    autoPush,     \* self._auto_push
    inSession,    \* self._in_session
    wt,           \* working tree: path -> content
    index,        \* git index: path -> staged content
    unmerged,     \* paths with unmerged index entries
    commits,      \* commit id -> [tree, parents]
    HEAD,         \* local branch head
    originRef,    \* refs/remotes/origin/<branch>
    remoteHead,   \* the branch in the remote repository
    mergeHead,    \* MERGE_HEAD: {} or {commit}
    remoteWrites, \* commits pushed by another clone so far
    lastOp,       \* the caller's last operation and how it ended
    \* --- Local Store (local.py)
    fs,           \* resolved path -> directory, file or symbolic link
    lastCall      \* the last Local Store call and how it ended

lockVars == <<recOf, pidOf, lock, openFiles, flockHolder, pc, depth, timeout,
              elapsed, attempts, outcome>>

gitVars == <<autoPull, autoPush, inSession, wt, index, unmerged, commits,
             HEAD, originRef, remoteHead, mergeHead, remoteWrites, lastOp>>

storeVars == <<fs, lastCall>>

nonLockVars == <<gitVars, storeVars>>

vars == <<lockVars, gitVars, storeVars>>

\* ------------------------------------------------------------ Process Lock
\* timeout, elapsed and attempts describe a call that is waiting or has
\* failed; they are cleared when the call returns True.
Threads == {"t1", "t2"}
Records == {"r1", "r2"}
Handles == 1..MaxHandles
Timeouts == {NoTimeout} \cup (0..MaxTimeout)

\* t1 and t2 are threads of one process sharing one backend (one FileLock).
SharedLayout ==
    [recOf |-> [t \in Threads |-> "r1"],
     pidOf |-> [t \in Threads |-> "p1"]]

\* Two FileLock instances on the same lock file, in two processes.
SeparateLayout ==
    [recOf |-> [t \in Threads |-> IF t = "t1" THEN "r1" ELSE "r2"],
     pidOf |-> [t \in Threads |-> IF t = "t1" THEN "p1" ELSE "p2"]]

\* Two FileLock instances on the same lock file, in one process.
SameProcessLayout ==
    [recOf |-> [t \in Threads |-> IF t = "t1" THEN "r1" ELSE "r2"],
     pidOf |-> [t \in Threads |-> "p1"]]

Layouts == {SharedLayout, SeparateLayout, SameProcessLayout}

\* FileLock.__init__
IdleRecord == [file |-> NoHandle, count |-> 0, owner |-> None]

\* One more pass through the `while True` loop.
CountAttempt(a) == IF a = "none" THEN "one" ELSE "many"

\* open(self.lock_path, "a"): a fresh open file description.
FreshHandle == CHOOSE h \in Handles \ openFiles :
                   \A k \in Handles \ openFiles : h <= k

\* fcntl.flock(fd, LOCK_EX | LOCK_NB) on description h succeeds iff no other
\* description holds the lock.
FlockShared(h) == TRUE
ApplyLockOk(h) == flockHolder = NoHandle \/ flockHolder = h

\* close(h) drops the lock h holds.
HolderAfterClose(h) == IF flockHolder = h THEN NoHandle ELSE flockHolder

\* `elapsed >= timeout`
TimeoutStrict(e, to) == e > to
TimedOut(e, to) == e >= to

\* The record after _release_lock (count > 1: only the count drops).
ReleaseAlways(r) == IdleRecord
ReleasedRecord(r) ==
    IF r.count > 1 THEN [r EXCEPT !.count = r.count - 1] ELSE IdleRecord

\* Whether _release_lock closes the handle of record r.
ReleaseCloses(r) == r.count <= 1 /\ r.file # NoHandle

InLoop(t) == pc[t] \in {"open", "lock", "own", "fail", "sleep"}
Resume(t) == IF depth[t] > 0 THEN "body" ELSE "idle"

LockStart(layout) ==
    /\ recOf = layout.recOf
    /\ pidOf = layout.pidOf
    /\ lock = [r \in Records |-> IdleRecord]
    /\ openFiles = {}
    /\ flockHolder = NoHandle
    /\ pc = [t \in Threads |-> "idle"]
    /\ depth = [t \in Threads |-> 0]
    /\ timeout = [t \in Threads |-> NoTimeout]
    /\ elapsed = [t \in Threads |-> 0]
    /\ attempts = [t \in Threads |-> "none"]
    /\ outcome = [t \in Threads |-> "none"]

\* acquire(timeout) up to the start of the retry loop: the re-entrant branch
\* returns at once, otherwise start_time is taken.
Acquire(t, to) ==
    /\ pc[t] \in {"idle", "body"}
    /\ depth[t] < MaxDepth
    /\ elapsed' = [elapsed EXCEPT ![t] = 0]
    /\ attempts' = [attempts EXCEPT ![t] = "none"]
    /\ IF lock[recOf[t]].owner = pidOf[t]
       THEN /\ lock' = [lock EXCEPT ![recOf[t]].count = @ + 1]
            /\ depth' = [depth EXCEPT ![t] = @ + 1]
            /\ pc' = [pc EXCEPT ![t] = "body"]
            /\ timeout' = [timeout EXCEPT ![t] = NoTimeout]
            /\ outcome' = [outcome EXCEPT ![t] = "reentered"]
       ELSE /\ pc' = [pc EXCEPT ![t] = "open"]
            /\ timeout' = [timeout EXCEPT ![t] = to]
            /\ outcome' = [outcome EXCEPT ![t] = "none"]
            /\ UNCHANGED <<lock, depth>>
    /\ UNCHANGED <<recOf, pidOf, openFiles, flockHolder>>
    /\ UNCHANGED nonLockVars

\* self._lock_file = open(self.lock_path, "a")
OpenLockFile(t) ==
    /\ pc[t] = "open"
    /\ Handles \ openFiles # {}
    /\ openFiles' = openFiles \cup {FreshHandle}
    /\ lock' = [lock EXCEPT ![recOf[t]].file = FreshHandle]
    /\ pc' = [pc EXCEPT ![t] = "lock"]
    /\ UNCHANGED <<recOf, pidOf, flockHolder, depth, timeout, elapsed,
                   attempts, outcome>>
    /\ UNCHANGED nonLockVars

\* self._apply_lock(self._lock_file): the handle is read from the record at
\* this moment; None there raises AttributeError out of acquire.
ApplyLock(t) ==
    /\ pc[t] = "lock"
    /\ LET h == lock[recOf[t]].file IN
       /\ attempts' = [attempts EXCEPT ![t] = CountAttempt(@)]
       /\ IF h = NoHandle
          THEN /\ pc' = [pc EXCEPT ![t] = Resume(t)]
               /\ outcome' = [outcome EXCEPT ![t] = "crash"]
               /\ UNCHANGED flockHolder
          ELSE IF ApplyLockOk(h)
          THEN /\ flockHolder' = h
               /\ pc' = [pc EXCEPT ![t] = "own"]
               /\ UNCHANGED outcome
          ELSE /\ pc' = [pc EXCEPT ![t] = "fail"]
               /\ UNCHANGED <<flockHolder, outcome>>
    /\ UNCHANGED <<recOf, pidOf, lock, openFiles, depth, timeout, elapsed>>
    /\ UNCHANGED nonLockVars

\* self._owner_pid = current_pid; self._lock_count = 1; return True
TakeOwnership(t) ==
    /\ pc[t] = "own"
    /\ lock' = [lock EXCEPT ![recOf[t]].owner = pidOf[t],
                            ![recOf[t]].count = 1]
    /\ depth' = [depth EXCEPT ![t] = @ + 1]
    /\ pc' = [pc EXCEPT ![t] = "body"]
    /\ outcome' = [outcome EXCEPT ![t] = "acquired"]
    /\ timeout' = [timeout EXCEPT ![t] = NoTimeout]
    /\ elapsed' = [elapsed EXCEPT ![t] = 0]
    /\ attempts' = [attempts EXCEPT ![t] = "none"]
    /\ UNCHANGED <<recOf, pidOf, openFiles, flockHolder>>
    /\ UNCHANGED nonLockVars

\* except OSError: close the handle the record holds, then give up (timeout
\* reached, or no timeout at all) or go to sleep before the next attempt.
LockFailed(t) ==
    /\ pc[t] = "fail"
    /\ LET h == lock[recOf[t]].file IN
       /\ openFiles' = openFiles \ {h}
       /\ flockHolder' = HolderAfterClose(h)
       /\ lock' = [lock EXCEPT ![recOf[t]].file = NoHandle]
    /\ IF timeout[t] = NoTimeout
       THEN /\ pc' = [pc EXCEPT ![t] = Resume(t)]
            /\ outcome' = [outcome EXCEPT ![t] = "lockerror"]
       ELSE IF TimedOut(elapsed[t], timeout[t])
       THEN /\ pc' = [pc EXCEPT ![t] = Resume(t)]
            /\ outcome' = [outcome EXCEPT ![t] = "timeout"]
       ELSE /\ pc' = [pc EXCEPT ![t] = "sleep"]
            /\ UNCHANGED outcome
    /\ UNCHANGED <<recOf, pidOf, depth, timeout, elapsed, attempts>>
    /\ UNCHANGED nonLockVars

\* time.sleep(min(0.1, timeout / 10)) has ended: next attempt.  How long the
\* sleep took is left to Tick.
Sleep(t) ==
    /\ pc[t] = "sleep"
    /\ pc' = [pc EXCEPT ![t] = "open"]
    /\ UNCHANGED <<recOf, pidOf, lock, openFiles, flockHolder, depth, timeout,
                   elapsed, attempts, outcome>>
    /\ UNCHANGED nonLockVars

\* `finally: if acquired: self._release_lock()` runs however the body ends.
ReleaseOnlyOnReturn(raised) == ~raised
ReleaseRuns(raised) == TRUE

\* Leaving a with-body, normally or by an exception raised in it: the finally
\* clause of acquire calls _release_lock, and the exception goes on to the
\* caller of the with statement.
Release(t, raised) ==
    /\ pc[t] = "body"
    /\ LET r == lock[recOf[t]] IN
       IF ReleaseRuns(raised)
       THEN /\ lock' = [lock EXCEPT ![recOf[t]] = ReleasedRecord(r)]
            /\ openFiles' = IF ReleaseCloses(r) THEN openFiles \ {r.file}
                            ELSE openFiles
            /\ flockHolder' = IF ReleaseCloses(r) THEN HolderAfterClose(r.file)
                              ELSE flockHolder
       ELSE UNCHANGED <<lock, openFiles, flockHolder>>
    /\ depth' = [depth EXCEPT ![t] = @ - 1]
    /\ pc' = [pc EXCEPT ![t] = IF depth[t] > 1 THEN "body" ELSE "idle"]
    /\ outcome' = [outcome EXCEPT ![t] = IF raised THEN "raised" ELSE "released"]
    /\ UNCHANGED <<recOf, pidOf, timeout, elapsed, attempts>>
    /\ UNCHANGED nonLockVars

\* A file object no record refers to any more (its reference was overwritten
\* by another thread's open) is closed by the runtime.
Finalize(h) ==
    /\ h \in openFiles
    /\ \A r \in Records : lock[r].file # h
    /\ openFiles' = openFiles \ {h}
    /\ flockHolder' = HolderAfterClose(h)
    /\ UNCHANGED <<recOf, pidOf, lock, pc, depth, timeout, elapsed, attempts,
                   outcome>>
    /\ UNCHANGED nonLockVars

\* The clock advances for every call that measures time.time() - start_time.
Timed(t) == InLoop(t) /\ timeout[t] # NoTimeout
Tick ==
    /\ \E t \in Threads : Timed(t) /\ elapsed[t] < timeout[t]
    /\ elapsed' = [t \in Threads |->
                     IF Timed(t) /\ elapsed[t] < timeout[t]
                     THEN elapsed[t] + 1 ELSE elapsed[t]]
    /\ UNCHANGED <<recOf, pidOf, lock, openFiles, flockHolder, pc, depth,
                   timeout, attempts, outcome>>
    /\ UNCHANGED nonLockVars

LockNext ==
    \/ \E t \in Threads, to \in Timeouts : Acquire(t, to)
    \/ \E t \in Threads : OpenLockFile(t)
    \/ \E t \in Threads : ApplyLock(t)
    \/ \E t \in Threads : TakeOwnership(t)
    \/ \E t \in Threads : LockFailed(t)
    \/ \E t \in Threads : Sleep(t)
    \/ \E t \in Threads, raised \in BOOLEAN : Release(t, raised)
    \/ \E h \in Handles : Finalize(h)
    \/ Tick

\* ------------------------------------------------------------ Local Store
\* A path string is a sequence of characters.  A resolved path is the
\* sequence of its components below "/", each a sequence of characters.
Slash == "/"
Dot == <<".">>
DotDot == <<".", ".">>

\* self._root (already resolved by __init__) and two directories beside it,
\* one of whose names starts with the name of the root.
RootDir == << <<"r">> >>
SiblingDir == << <<"r", "x">> >>
OtherDir == << <<"o">> >>

\* A file holds a sequence of bytes.
File(d) == [kind |-> "file", data |-> d, to |-> <<>>]
Dir == [kind |-> "dir", data |-> <<>>, to |-> <<>>]
Link(target) == [kind |-> "link", data |-> <<>>, to |-> target]

\* What a caller passes as data: bytes, text (a sequence of code points),
\* or nothing.
Bytes(b) == [type |-> "bytes", val |-> b]
Text(cs) == [type |-> "text", val |-> cs]
NoData == [type |-> "none", val |-> <<>>]

\* str.encode("latin-1") of one code point.
Latin1(cp) == <<cp % 256>>
\* str.encode("utf-8") of one code point below 2^16.
Utf8(cp) ==
    IF cp < 128 THEN <<cp>>
    ELSE IF cp < 2048 THEN <<192 + (cp \div 64), 128 + (cp % 64)>>
    ELSE <<224 + (cp \div 4096), 128 + ((cp \div 64) % 64), 128 + (cp % 64)>>
RECURSIVE Encode(_)
Encode(cs) == IF cs = <<>> THEN <<>> ELSE Utf8(Head(cs)) \o Encode(Tail(cs))
\* coerce_to_bytes: bytes as they are, text encoded as UTF-8.
CoerceToBytes(d) == IF d.type = "text" THEN Encode(d.val) ELSE d.val
\* create: `self._coerce_bytes(data) if data is not None else b""`.
PayloadOf(d) == IF d.type = "none" THEN <<>> ELSE CoerceToBytes(d)

RECURSIVE Render(_)
\* str(path) of a resolved path.
Render(c) == IF c = <<>> THEN <<>> ELSE <<Slash>> \o Head(c) \o Render(Tail(c))

\* str.startswith, and by the same definition the component-wise prefix.
StartsWith(s, pre) == Len(s) >= Len(pre) /\ SubSeq(s, 1, Len(pre)) = pre

\* Dropping one leading character.
StripOne(s) == IF s = <<>> THEN s ELSE Tail(s)

RECURSIVE LStrip(_)
\* str.lstrip("/")
LStrip(s) == IF s # <<>> /\ Head(s) = Slash THEN LStrip(Tail(s)) ELSE s

RECURSIVE SplitFrom(_, _, _)
SplitFrom(s, cur, acc) ==
    LET done == IF cur = <<>> \/ cur = Dot THEN acc ELSE Append(acc, cur)
    IN  IF s = <<>> THEN done
        ELSE IF Head(s) = Slash THEN SplitFrom(Tail(s), <<>>, done)
        ELSE SplitFrom(Tail(s), Append(cur, Head(s)), acc)
\* Path(path_str).parts without the anchor: empty and "." components dropped.
Components(s) == SplitFrom(s, <<>>, <<>>)

Parent(c) == IF c = <<>> THEN c ELSE SubSeq(c, 1, Len(c) - 1)

RECURSIVE Walk(_, _, _)
\* Path.resolve(strict=False): ".." steps up, a symlink is replaced by its
\* target, a component that does not exist is kept.
Walk(f, cur, rest) ==
    IF rest = <<>> THEN cur
    ELSE LET c == Head(rest)
             nxt == Append(cur, c)
         IN  IF c = DotDot THEN Walk(f, Parent(cur), Tail(rest))
             ELSE IF nxt \in DOMAIN f /\ f[nxt].kind = "link"
             THEN Walk(f, <<>>, f[nxt].to \o Tail(rest))
             ELSE Walk(f, nxt, Tail(rest))

RelativeToByString(c, root) == StartsWith(Render(c), Render(root))
\* candidate.relative_to(self._root) does not raise.
RelativeTo(c, root) == StartsWith(c, root)

\* _ensure_within_root: the candidate, and whether it is returned (ok) or
\* PathOutsideRoot is raised.
EnsureWithinRoot(f, s) ==
    LET root_str == Render(RootDir)
        path_str == IF StartsWith(s, <<Slash>>) /\ ~StartsWith(s, root_str)
                    THEN (IF LStrip(s) = <<>> THEN Dot ELSE LStrip(s))
                    ELSE s
        joined == IF StartsWith(path_str, <<Slash>>) THEN Components(path_str)
                  ELSE RootDir \o Components(path_str)
        candidate == Walk(f, <<>>, joined)
    IN  [ok |-> RelativeTo(candidate, RootDir), target |-> candidate]

Exists(f, t) == t \in DOMAIN f
IsDir(f, t) == Exists(f, t) /\ f[t].kind = "dir"
Below(f, t) == {q \in DOMAIN f : Len(q) > Len(t) /\ StartsWith(q, t)}
Without(f, gone) == [q \in DOMAIN f \ gone |-> f[q]]
Ancestry(t) == {SubSeq(t, 1, k) : k \in 0..(Len(t) - 1)}
\* target.parent.mkdir(parents=True, exist_ok=True) succeeds.
CanMkdirParents(f, t) == \A q \in Ancestry(t) : Exists(f, q) => IsDir(f, q)
MkdirParents(f, t) == f @@ [q \in Ancestry(t) \ DOMAIN f |-> Dir]
WriteFile(f, t, d) == [q \in DOMAIN f \cup {t} |-> IF q = t THEN File(d) ELSE f[q]]

\* The result of an operation: the file system after it, how it ended, the
\* resolved paths it went on to use, and what it returned for which argument.
Result(f, how, used, value) ==
    [fs |-> f, outcome |-> how, used |-> used, value |-> value]
Rejected(f) == Result(f, "PathOutsideRoot", {}, {})

\* create with validate_entry_not_exists taken before
\* validate_not_overwriting_directory_with_file.
StoreCreateUnordered(f, s, d, overwrite) ==
    LET e == EnsureWithinRoot(f, s)
        t == e.target
        f1 == MkdirParents(f, t)
    IN  IF ~e.ok THEN Rejected(f)
        ELSE IF ~CanMkdirParents(f, t) THEN Result(f, "OSError", {t}, {})
        ELSE IF Exists(f, t) /\ ~overwrite THEN Result(f1, "AlreadyExists", {t}, {})
        ELSE IF IsDir(f, t) THEN Result(f1, "CannotOverwriteDirectory", {t}, {})
        ELSE Result(WriteFile(f1, t, PayloadOf(d)), "ok", {t}, {})

StoreCreate(f, s, d, overwrite) ==
    LET e == EnsureWithinRoot(f, s)
        t == e.target
        f1 == MkdirParents(f, t)
    IN  IF ~e.ok THEN Rejected(f)
        ELSE IF ~CanMkdirParents(f, t) THEN Result(f, "OSError", {t}, {})
        ELSE IF IsDir(f, t) THEN Result(f1, "CannotOverwriteDirectory", {t}, {})
        ELSE IF Exists(f, t) /\ ~overwrite THEN Result(f1, "AlreadyExists", {t}, {})
        ELSE Result(WriteFile(f1, t, PayloadOf(d)), "ok", {t}, {})

\* create(path, is_directory=True)
StoreCreateDirectory(f, s, overwrite) ==
    LET e == EnsureWithinRoot(f, s)
        t == e.target
        f1 == MkdirParents(f, t)
    IN  IF ~e.ok THEN Rejected(f)
        ELSE IF ~CanMkdirParents(f, t) THEN Result(f, "OSError", {t}, {})
        ELSE IF Exists(f, t) /\ ~IsDir(f, t)
        THEN Result(f1, "CannotOverwriteFile", {t}, {})
        ELSE IF Exists(f, t) /\ ~overwrite THEN Result(f1, "AlreadyExists", {t}, {})
        ELSE Result(f1 @@ (t :> Dir), "ok", {t}, {})

\* read, stream_read and checksum: the content of an existing file.
StoreRead(f, s) ==
    LET e == EnsureWithinRoot(f, s)
        t == e.target
    IN  IF ~e.ok THEN Rejected(f)
        ELSE IF ~Exists(f, t) THEN Result(f, "NotFound", {t}, {})
        ELSE IF IsDir(f, t) THEN Result(f, "CannotReadDirectory", {t}, {})
        ELSE Result(f, "ok", {t}, {<<s, f[t].data>>})

\* update: mode "ab" when append, "wb" otherwise.
StoreUpdate(f, s, d, append) ==
    LET e == EnsureWithinRoot(f, s)
        t == e.target
    IN  IF ~e.ok THEN Rejected(f)
        ELSE IF ~Exists(f, t) THEN Result(f, "NotFound", {t}, {})
        ELSE IF IsDir(f, t) THEN Result(f, "CannotReadDirectory", {t}, {})
        ELSE Result(WriteFile(f, t, IF append THEN f[t].data \o CoerceToBytes(d)
                                    ELSE CoerceToBytes(d)),
                    "ok", {t}, {})

RECURSIVE ChunksWithEnd(_, _)
\* The chunks of a loop that yields before it tests for the end.
ChunksWithEnd(data, n) ==
    IF data = <<>> THEN << <<>> >>
    ELSE <<SubSeq(data, 1, IF Len(data) <= n THEN Len(data) ELSE n)>>
         \o ChunksWithEnd(SubSeq(data, (IF Len(data) <= n THEN Len(data) ELSE n) + 1,
                                 Len(data)), n)

RECURSIVE ChunksOf(_, _)
\* The chunks fh.read(chunk_size) returns until it returns nothing.
ChunksOf(data, n) ==
    IF data = <<>> THEN <<>>
    ELSE IF Len(data) <= n THEN <<data>>
    ELSE <<SubSeq(data, 1, n)>> \o ChunksOf(SubSeq(data, n + 1, Len(data)), n)

\* stream_read(path, chunk_size), iterated to its end: the chunks it yields.
StoreStreamRead(f, s, n) ==
    LET e == EnsureWithinRoot(f, s)
        t == e.target
    IN  IF ~e.ok THEN Rejected(f)
        ELSE IF ~Exists(f, t) THEN Result(f, "NotFound", {t}, {})
        ELSE IF IsDir(f, t) THEN Result(f, "CannotReadDirectory", {t}, {})
        ELSE Result(f, "ok", {t}, {<<s, ChunksOf(f[t].data, n)>>})

\* delete that unlinks the target alone.
StoreDeleteShallow(f, s, recursive) ==
    LET e == EnsureWithinRoot(f, s)
        t == e.target
    IN  IF ~e.ok THEN Rejected(f)
        ELSE IF ~Exists(f, t) THEN Result(f, "NotFound", {t}, {})
        ELSE IF IsDir(f, t) /\ Below(f, t) # {} /\ ~recursive
        THEN Result(f, "DirectoryNotEmpty", {t}, {})
        ELSE Result(Without(f, {t}), "ok", {t}, {})

StoreDelete(f, s, recursive) ==
    LET e == EnsureWithinRoot(f, s)
        t == e.target
    IN  IF ~e.ok THEN Rejected(f)
        ELSE IF ~Exists(f, t) THEN Result(f, "NotFound", {t}, {})
        ELSE IF IsDir(f, t) /\ Below(f, t) # {} /\ ~recursive
        THEN Result(f, "DirectoryNotEmpty", {t}, {})
        ELSE Result(Without(f, {t} \cup Below(f, t)), "ok", {t}, {})

StoreInfo(f, s) ==
    LET e == EnsureWithinRoot(f, s)
        t == e.target
    IN  IF ~e.ok THEN Rejected(f)
        ELSE IF ~Exists(f, t) THEN Result(f, "NotFound", {t}, {})
        ELSE Result(f, "ok", {t}, {<<s, f[t].kind>>})

StoreStreamWrite(f, s, d, overwrite) ==
    LET e == EnsureWithinRoot(f, s)
        t == e.target
    IN  IF ~e.ok THEN Rejected(f)
        ELSE IF IsDir(f, t) THEN Result(f, "CannotOverwriteDirectory", {t}, {})
        ELSE IF Exists(f, t) /\ ~overwrite THEN Result(f, "AlreadyExists", {t}, {})
        ELSE IF ~CanMkdirParents(f, t) THEN Result(f, "OSError", {t}, {})
        ELSE Result(WriteFile(MkdirParents(f, t), t, CoerceToBytes(d)), "ok", {t}, {})

\* checksum_many that passes over missing paths only.
StoreChecksumManyListing(f, ss) ==
    LET good == {i \in 1..Len(ss) :
                    LET e == EnsureWithinRoot(f, ss[i])
                    IN  e.ok /\ Exists(f, e.target)}
        passed == {i \in 1..Len(ss) : EnsureWithinRoot(f, ss[i]).ok}
    IN  Result(f, "ok",
               {EnsureWithinRoot(f, ss[i]).target : i \in passed},
               {<<ss[i], f[EnsureWithinRoot(f, ss[i]).target].data>> : i \in good})

\* checksum_many: the paths that resolve inside the root to a file, each
\* with its digest; every other path is passed over.
StoreChecksumMany(f, ss) ==
    LET good == {i \in 1..Len(ss) :
                    LET e == EnsureWithinRoot(f, ss[i])
                    IN  e.ok /\ Exists(f, e.target) /\ ~IsDir(f, e.target)}
        passed == {i \in 1..Len(ss) : EnsureWithinRoot(f, ss[i]).ok}
    IN  Result(f, "ok",
               {EnsureWithinRoot(f, ss[i]).target : i \in passed},
               {<<ss[i], f[EnsureWithinRoot(f, ss[i]).target].data>> : i \in good})

\* The path strings callers pass: a file and a directory of the root, the
\* root-relative and the absolute form, a symbolic link staying inside, an
\* absolute path elsewhere, "..", a sibling whose name starts like the
\* root's, and a symbolic link leading out.
CallerPaths ==
    { <<"f">>,                                          \* f
      <<"d">>,                                          \* d
      <<"/", "f">>,                                     \* /f
      <<"/", "r", "/", "f">>,                           \* /r/f
      <<"k">>,                                          \* k
      <<"/", "o", "/", "s">>,                           \* /o/s
      <<".", ".">>,                                     \* ..
      <<".", ".", "/", "o", "/", "s">>,                 \* ../o/s
      <<"/", ".", ".", "/", "o", "/", "s">>,            \* /../o/s
      <<"/", "r", "x", "/", "s">>,                      \* /rx/s
      <<"/", "r", "/", ".", ".", "/", "o", "/", "s">>,  \* /r/../o/s
      <<"l", "/", "s">> }                               \* l/s
BatchPaths ==
    { <<"f">>,                          \* f
      <<"d">>,                          \* d
      <<".", ".", "/", "o", "/", "s">>, \* ../o/s
      <<"/", "r", "x", "/", "s">> }     \* /rx/s
Batches == UNION {[1..n -> BatchPaths] : n \in 1..MaxBatch}
Payloads == {Bytes(<<121>>)}

Secret == <<115>>
\* The root with a file, a directory and two symbolic links, one leading out
\* of the root; beside it two directories with a file each.
StartFiles ==
    [q \in {<<>>, RootDir, SiblingDir, OtherDir} |-> Dir]
    @@ (RootDir \o << <<"f">> >> :> File(<<120>>))
    @@ (RootDir \o << <<"d">> >> :> Dir)
    @@ (RootDir \o << <<"d">>, <<"g">> >> :> File(<<120>>))
    @@ (RootDir \o << <<"l">> >> :> Link(OtherDir))
    @@ (RootDir \o << <<"k">> >> :> Link(RootDir \o << <<"d">>, <<"g">> >>))
    @@ (OtherDir \o << <<"s">> >> :> File(Secret))
    @@ (SiblingDir \o << <<"s">> >> :> File(Secret))

NoCall ==
    [op |-> "none", args |-> <<>>, data |-> NoData, flag |-> FALSE,
     size |-> DefaultChunkSize, outcome |-> "ok", used |-> {}, value |-> {}]

StoreStart ==
    /\ fs = StartFiles
    /\ lastCall = NoCall

\* A call with the data, the overwrite, append or recursive flag and the
\* chunk size it was given.
CallSized(op, args, d, flag, n, res) ==
    /\ fs' = res.fs
    /\ lastCall' = [op |-> op, args |-> args, data |-> d, flag |-> flag, size |-> n,
                    outcome |-> res.outcome, used |-> res.used, value |-> res.value]
    /\ UNCHANGED <<lockVars, gitVars>>
CallWith(op, args, d, flag, res) == CallSized(op, args, d, flag, DefaultChunkSize, res)
Call(op, args, res) == CallWith(op, args, NoData, FALSE, res)

LocalCreateFile(s, d, ow) == CallWith("create", <<s>>, d, ow, StoreCreate(fs, s, d, ow))
LocalCreateDirectory(s, ow) ==
    CallWith("create_directory", <<s>>, NoData, ow, StoreCreateDirectory(fs, s, ow))
LocalReadFile(s) == Call("read", <<s>>, StoreRead(fs, s))
LocalUpdateFile(s, d, append) ==
    CallWith("update", <<s>>, d, append, StoreUpdate(fs, s, d, append))
LocalDeletePath(s, rec) ==
    CallWith("delete", <<s>>, NoData, rec, StoreDelete(fs, s, rec))
LocalInfo(s) == Call("info", <<s>>, StoreInfo(fs, s))
LocalStreamRead(s, n) ==
    CallSized("stream_read", <<s>>, NoData, FALSE, n, StoreStreamRead(fs, s, n))
LocalStreamWrite(s, d, ow) ==
    CallWith("stream_write", <<s>>, d, ow, StoreStreamWrite(fs, s, d, ow))
LocalChecksum(s) == Call("checksum", <<s>>, StoreRead(fs, s))
LocalChecksumMany(ss) == Call("checksum_many", ss, StoreChecksumMany(fs, ss))

StoreNext ==
    \/ \E s \in CallerPaths, d \in Payloads, ow \in BOOLEAN : LocalCreateFile(s, d, ow)
    \/ \E s \in CallerPaths : LocalReadFile(s)
    \/ \E s \in CallerPaths, d \in Payloads : LocalUpdateFile(s, d, FALSE)
    \/ \E s \in CallerPaths, rec \in BOOLEAN : LocalDeletePath(s, rec)
    \/ \E s \in CallerPaths : LocalInfo(s)
    \/ \E s \in CallerPaths : LocalStreamRead(s, DefaultChunkSize)
    \/ \E s \in CallerPaths, d \in Payloads, ow \in BOOLEAN : LocalStreamWrite(s, d, ow)
    \/ \E s \in CallerPaths : LocalChecksum(s)
    \/ \E ss \in Batches : LocalChecksumMany(ss)

\* The paths of the create rules: a file, a directory, a symbolic link to a
\* file of that directory, a new file under a directory yet to be made, and
\* a path below a file.
FilePaths ==
    { <<"f">>,                  \* f
      <<"d">>,                  \* d
      <<"k">>,                  \* k
      <<"a", "/", "n">>,        \* a/n
      <<"f", "/", "x">> }       \* f/x
\* Bytes, text outside ASCII, and no data at all.
FilePayloads == {NoData, Bytes(<<121>>), Text(<<233>>)}
GivenPayloads == FilePayloads \ {NoData}
\* Where a directory is asked for: on a directory and on a file.
DirectoryPaths == { <<"d">>, <<"f">> }
\* What is deleted: the directory, and the file in it through the link.
DeletePaths == { <<"d">>, <<"k">> }

FilesNext ==
    \/ \E s \in FilePaths, d \in FilePayloads, ow \in BOOLEAN : LocalCreateFile(s, d, ow)
    \/ \E s \in DirectoryPaths, ow \in BOOLEAN : LocalCreateDirectory(s, ow)
    \/ \E s \in FilePaths : LocalReadFile(s)
    \/ \E s \in FilePaths, d \in GivenPayloads : LocalUpdateFile(s, d, FALSE)
    \/ \E s \in DeletePaths, rec \in BOOLEAN : LocalDeletePath(s, rec)
    \/ \E s \in FilePaths, d \in GivenPayloads, ow \in BOOLEAN : LocalStreamWrite(s, d, ow)

\* The empty path, a path of one space and one of two, next to a file.
EmptyPathString == <<>>
BlankPaths == { <<" ">>, <<" ", " ">> }
NamelessPaths == {EmptyPathString} \cup BlankPaths
NamelessBatches == UNION {[1..n -> NamelessPaths \cup {<<"f">>}] : n \in 1..MaxBatch}

NamelessNext ==
    \/ \E s \in NamelessPaths, d \in FilePayloads, ow \in BOOLEAN : LocalCreateFile(s, d, ow)
    \/ \E s \in NamelessPaths, ow \in BOOLEAN : LocalCreateDirectory(s, ow)
    \/ \E s \in NamelessPaths : LocalReadFile(s)
    \/ \E s \in NamelessPaths, d \in GivenPayloads : LocalUpdateFile(s, d, FALSE)
    \/ \E s \in NamelessPaths, rec \in BOOLEAN : LocalDeletePath(s, rec)
    \/ \E s \in NamelessPaths : LocalInfo(s)
    \/ \E s \in NamelessPaths : LocalStreamRead(s, DefaultChunkSize)
    \/ \E s \in NamelessPaths, d \in GivenPayloads, ow \in BOOLEAN : LocalStreamWrite(s, d, ow)
    \/ \E s \in NamelessPaths : LocalChecksum(s)
    \/ \E ss \in NamelessBatches : LocalChecksumMany(ss)

\* The paths of update, delete and the reading operations: a file, a
\* directory holding a file, a missing path; the link to the file of the
\* directory, by which that file is deleted and made again; and a file
\* outside the root in the lists of checksum_many.
ContentPaths == { <<"f">>, <<"d">>, <<"m">> }
LinkPath == <<"k">>
ListedPaths == ContentPaths \cup { <<".", ".", "/", "o", "/", "s">> }
Lists == UNION {[1..n -> ListedPaths] : n \in 0..MaxBatch}
ChunkSizes == 1..MaxChunkSize
\* The file an append goes to stays within MaxFileLen bytes.
Fits(s, d) ==
    LET e == EnsureWithinRoot(fs, s)
    IN  (e.ok /\ Exists(fs, e.target) /\ ~IsDir(fs, e.target))
            => Len(fs[e.target].data) + Len(CoerceToBytes(d)) <= MaxFileLen

ContentNext ==
    \/ \E s \in {<<"f">>, LinkPath} : LocalCreateFile(s, NoData, FALSE)
    \/ \E s \in ContentPaths : LocalReadFile(s)
    \/ \E s \in ContentPaths, d \in GivenPayloads, append \in BOOLEAN :
            (append => Fits(s, d)) /\ LocalUpdateFile(s, d, append)
    \/ \E s \in ContentPaths \cup {LinkPath}, rec \in BOOLEAN : LocalDeletePath(s, rec)
    \/ \E s \in ContentPaths, n \in ChunkSizes : LocalStreamRead(s, n)
    \/ \E s \in ContentPaths : LocalChecksum(s)
    \/ \E ss \in Lists : LocalChecksumMany(ss)

\* Root-relative paths written with leading slashes: a file, a directory, a
\* missing path, a path leaving the root, and a path whose first component
\* starts like the root's name.
PlainPaths ==
    { <<"f">>,                          \* f
      <<"d">>,                          \* d
      <<"m">>,                          \* m
      <<".", ".", "/", "o", "/", "s">>, \* ../o/s
      <<"r", "x", "/", "s">> }          \* rx/s
Slashes(k) == [i \in 1..k |-> Slash]
Slashed(p, k) == Slashes(k) \o p
SlashedPaths == {Slashed(p, k) : p \in PlainPaths \cup {<<>>}, k \in 0..MaxSlashes} \ {<<>>}

SlashNext ==
    \/ \E s \in SlashedPaths : LocalCreateFile(s, Bytes(<<121>>), FALSE)
    \/ \E s \in SlashedPaths : LocalCreateDirectory(s, FALSE)
    \/ \E s \in SlashedPaths : LocalReadFile(s)
    \/ \E s \in SlashedPaths : LocalUpdateFile(s, Bytes(<<121>>), FALSE)
    \/ \E s \in SlashedPaths : LocalDeletePath(s, FALSE)
    \/ \E s \in SlashedPaths : LocalInfo(s)
    \/ \E s \in SlashedPaths : LocalStreamRead(s, DefaultChunkSize)
    \/ \E s \in SlashedPaths : LocalStreamWrite(s, Bytes(<<121>>), TRUE)
    \/ \E s \in SlashedPaths : LocalChecksum(s)
    \/ \E s \in SlashedPaths : LocalChecksumMany(<<s>>)

\* --------------------------------------------- Local Store: sync_session
\* LocalFileBackend.sync_session is self._lock.acquire(timeout): the body of
\* the with statement runs between TakeOwnership (or a re-entrant Acquire) and
\* Release.  Two backends on the same root, in one process or in two,
\* work on a file of the root inside their session bodies.
SessionPaths == { <<"f">> }
SessionLayouts == {SeparateLayout, SameProcessLayout}

BodyCreate(t, s, d) == pc[t] = "body" /\ LocalCreateFile(s, d, TRUE)
BodyUpdate(t, s, d) == pc[t] = "body" /\ LocalUpdateFile(s, d, FALSE)
BodyDelete(t, s) == pc[t] = "body" /\ LocalDeletePath(s, FALSE)

SessionNext ==
    \/ \E t \in Threads, to \in Timeouts : Acquire(t, to)
    \/ \E t \in Threads : OpenLockFile(t)
    \/ \E t \in Threads : ApplyLock(t)
    \/ \E t \in Threads : TakeOwnership(t)
    \/ \E t \in Threads : LockFailed(t)
    \/ \E t \in Threads : Sleep(t)
    \/ \E t \in Threads, raised \in BOOLEAN : Release(t, raised)
    \/ Tick
    \/ \E t \in Threads, s \in SessionPaths, d \in Payloads : BodyCreate(t, s, d)
    \/ \E t \in Threads, s \in SessionPaths, d \in Payloads : BodyUpdate(t, s, d)
    \/ \E t \in Threads, s \in SessionPaths : BodyDelete(t, s)

\* ------------------------------------------ Sync Engine: repository and git
\* The lock file LocalFileBackend puts at the top of the working tree.
LockFile == ".backend.lock"
UserPaths == {"p"}
Paths == UserPaths \cup {LockFile}
Absent == "absent"
\* A file holding conflict markers (both sides of a failed merge).
Markers == "markers"
\* The content of the freshly created lock file.
Empty == "empty"
\* What the repository holds at first, what the caller writes, and what the
\* other clone writes.
BaseData == "d1"
Data == {"d2"}
RemoteData == {"d2", "d3", Absent}

\* Saturating call counter: 0, 1, many.
Inc(n) == IF n < 2 THEN n + 1 ELSE 2

TreeOf(g, c) == g.commits[c].tree

RECURSIVE Ancestors(_, _)
Ancestors(cs, c) == {c} \cup UNION {Ancestors(cs, q) : q \in cs[c].parents}
IsAncestor(cs, a, b) == a \in Ancestors(cs, b)
\* The last common commit of a and b.
MergeBase(cs, a, b) ==
    LET common == Ancestors(cs, a) \cap Ancestors(cs, b)
    IN  CHOOSE c \in common : \A k \in common : k <= c

TheirsOf(g) == CHOOSE c \in g.mergeHead : TRUE

\* The two-letter code `git status --porcelain` prints for path p
\* (<<" ", " ">>: no line).
StatusCode(g, p) ==
    IF p \in g.unmerged
    THEN LET o == TreeOf(g, g.HEAD)[p]
             t == TreeOf(g, TheirsOf(g))[p]
             b == TreeOf(g, MergeBase(g.commits, g.HEAD, TheirsOf(g)))[p]
         IN  IF o = Absent /\ t = Absent THEN <<"D", "D">>
             ELSE IF o = Absent THEN <<"D", "U">>
             ELSE IF t = Absent THEN <<"U", "D">>
             ELSE IF b = Absent THEN <<"A", "A">>
             ELSE <<"U", "U">>
    ELSE LET h == TreeOf(g, g.HEAD)[p]
             i == g.index[p]
             w == g.wt[p]
         IN  IF i = Absent /\ h = Absent
             THEN (IF w = Absent THEN <<" ", " ">> ELSE <<"?", "?">>)
             ELSE << IF i = h THEN " " ELSE IF h = Absent THEN "A"
                     ELSE IF i = Absent THEN "D" ELSE "M",
                     IF w = i THEN " " ELSE IF w = Absent THEN "D"
                     ELSE IF i = Absent THEN "?" ELSE "M" >>

\* conflict_report: the paths whose code contains U or is AA or DD.
ConflictReport(g) ==
    {p \in Paths :
        LET code == StatusCode(g, p)
        IN  \/ code[1] = "U" \/ code[2] = "U"
            \/ code \in {<<"A", "A">>, <<"D", "D">>}}

\* _ensure_clean_working_tree: `git status --porcelain` prints nothing.
CleanWorkingTree(g) == \A p \in Paths : StatusCode(g, p) = <<" ", " ">>

Fail(g, e) == [g EXCEPT !.err = e]
Failed(g) == g.err # "ok"

\* git add --all
AddAll(g) == [g EXCEPT !.index = g.wt, !.unmerged = {}]
\* git add <path>
AddPath(g, p) == [g EXCEPT !.index[p] = g.wt[p], !.unmerged = @ \ {p}]

\* A test that always finds something to commit.
AlwaysChanged(g) == g.index = g.index
\* git diff --cached --quiet returns 1: the index differs from HEAD.
HasChanges(g) == g.index # TreeOf(g, g.HEAD)

\* git commit -m: a commit of the index on top of HEAD (and of MERGE_HEAD
\* while a merge is in progress).
GitCommit(g) ==
    LET c == Len(g.commits) + 1
    IN  [g EXCEPT !.commits = Append(@, [tree |-> g.index,
                                         parents |-> {g.HEAD} \cup g.mergeHead]),
                  !.HEAD = c,
                  !.mergeHead = {}]

\* git push origin <branch>: accepted iff the remote has no such branch yet
\* or its branch is an ancestor of HEAD.
PushAccepted(g) ==
    g.remoteHead = NoCommit \/ IsAncestor(g.commits, g.remoteHead, g.HEAD)
GitPush(g) ==
    IF PushAccepted(g)
    THEN [g EXCEPT !.remoteHead = g.HEAD, !.originRef = g.HEAD]
    ELSE Fail(g, "GitBackendError")

\* push without _ensure_no_conflicts.
PushUnchecked(g, msg) ==
    LET g0 == [g EXCEPT !.npush = Inc(@), !.msg = msg]
        g1 == AddAll(g0)
        g2 == IF HasChanges(g1) THEN GitCommit(g1) ELSE g1
    IN  GitPush(g2)
\* A push that takes its commit back when the remote rejects it.
PushRollingBack(g, msg) ==
    LET g0 == [g EXCEPT !.npush = Inc(@), !.msg = msg]
    IN  IF ConflictReport(g0) # {} THEN Fail(g0, "GitBackendError")
        ELSE LET g1 == AddAll(g0)
                 g2 == IF HasChanges(g1) THEN GitCommit(g1) ELSE g1
             IN  IF PushAccepted(g2) THEN GitPush(g2)
                 ELSE Fail(g1, "GitBackendError")
\* GitSyncFileBackend.push
Push(g, msg) ==
    LET g0 == [g EXCEPT !.npush = Inc(@), !.msg = msg]
    IN  IF ConflictReport(g0) # {} THEN Fail(g0, "GitBackendError")
        ELSE LET g1 == AddAll(g0)
                 g2 == IF HasChanges(g1) THEN GitCommit(g1) ELSE g1
             IN  GitPush(g2)

MergeOurs(b, o, t) == IF o = b THEN t ELSE o
\* The result of merging path p three ways; "conflict" when both sides
\* changed it differently.
MergePath(b, o, t) ==
    IF o = t THEN o ELSE IF o = b THEN t ELSE IF t = b THEN o ELSE "conflict"

\* What a conflicted merge leaves in the working tree at p.
ConflictFile(o, t) ==
    IF o = Absent THEN t ELSE IF t = Absent THEN o ELSE Markers

\* git merge --no-edit origin/<branch>, on a clean working tree: refused
\* while MERGE_HEAD exists.
GitMerge(g) ==
    LET cs == g.commits
        theirs == g.originRef
    IN  IF g.mergeHead # {} THEN Fail(g, "MergeFailed")
        ELSE IF IsAncestor(cs, theirs, g.HEAD) THEN g
        ELSE IF IsAncestor(cs, g.HEAD, theirs)
        THEN [g EXCEPT !.HEAD = theirs,
                       !.index = cs[theirs].tree,
                       !.wt = cs[theirs].tree]
        ELSE LET b == cs[MergeBase(cs, g.HEAD, theirs)].tree
                 o == cs[g.HEAD].tree
                 t == cs[theirs].tree
                 m == [p \in Paths |-> MergePath(b[p], o[p], t[p])]
                 bad == {p \in Paths : m[p] = "conflict"}
             IN  IF bad = {}
                 THEN GitCommit([g EXCEPT !.index = m, !.wt = m,
                                          !.mergeHead = {theirs}])
                 ELSE [g EXCEPT
                         !.mergeHead = {theirs},
                         !.unmerged = bad,
                         !.index = [p \in Paths |->
                                      IF p \in bad THEN Absent ELSE m[p]],
                         !.wt = [p \in Paths |->
                                   IF p \in bad THEN ConflictFile(o[p], t[p])
                                   ELSE m[p]],
                         !.err = "MergeFailed"]

\* git fetch origin <branch>, run with check=True: fails when the remote has
\* no such branch, else brings origin/<branch> up to the remote branch.
GitFetch(g) ==
    IF g.remoteHead = NoCommit THEN Fail(g, "GitBackendError")
    ELSE [g EXCEPT !.originRef = g.remoteHead]
\* The steps of pull after its two tests: fetch, rev-parse --verify, merge.
FetchAndMerge(g) ==
    LET g1 == GitFetch(g)
    IN  IF Failed(g1) THEN g1
        ELSE IF g1.originRef = NoCommit THEN g1
        ELSE LET g2 == GitMerge(g1)
             IN  IF Failed(g2) THEN Fail(g2, "GitBackendError") ELSE g2

\* pull without _ensure_clean_working_tree.
PullDirty(g) ==
    LET g0 == [g EXCEPT !.npull = Inc(@)]
    IN  IF ConflictReport(g0) # {} THEN Fail(g0, "GitBackendError")
        ELSE FetchAndMerge(g0)
\* GitSyncFileBackend.pull
Pull(g) ==
    LET g0 == [g EXCEPT !.npull = Inc(@)]
    IN  IF ConflictReport(g0) # {} THEN Fail(g0, "GitBackendError")
        ELSE IF ~CleanWorkingTree(g0) THEN Fail(g0, "GitBackendError")
        ELSE FetchAndMerge(g0)

\* Whether per-operation auto-sync applies: the option is on and no session
\* is open.
AutoSync(g, enabled) == enabled /\ ~g.inSession

\* LocalFileBackend create / update / delete / read on a path inside the root.
LocalCreate(g, p, d) ==
    IF g.wt[p] # Absent THEN Fail(g, "AlreadyExists")
    ELSE [g EXCEPT !.wt[p] = d]
LocalUpdate(g, p, d) ==
    IF g.wt[p] = Absent THEN Fail(g, "NotFound")
    ELSE [g EXCEPT !.wt[p] = d]
LocalDelete(g, p) ==
    IF g.wt[p] = Absent THEN Fail(g, "NotFound")
    ELSE [g EXCEPT !.wt[p] = Absent]
LocalRead(g, p) ==
    IF g.wt[p] = Absent THEN Fail(g, "NotFound") ELSE g

\* GitSyncFileBackend create / update / delete: the local change, then the
\* auto-push; read: the auto-pull, then the local read.
AfterWrite(g, verb, p) ==
    IF ~Failed(g) /\ AutoSync(g, autoPush) THEN Push(g, <<verb, p>>) ELSE g
Create(g, p, d) == AfterWrite(LocalCreate(g, p, d), "Create", p)
Update(g, p, d) == AfterWrite(LocalUpdate(g, p, d), "Update", p)
Delete(g, p) == AfterWrite(LocalDelete(g, p), "Delete", p)
Read(g, p) ==
    LET g1 == IF AutoSync(g, autoPull) THEN Pull(g) ELSE g
    IN  IF Failed(g1) THEN g1 ELSE LocalRead(g1, p)

\* LocalFileBackend info / stream_read (up to its first chunk) / stream_write
\* / checksum / glob on a path inside the root.
LocalInfoOf(g, p) ==
    IF g.wt[p] = Absent THEN Fail(g, "NotFound") ELSE g
LocalStreamWriteTo(g, p, d, overwrite) ==
    IF g.wt[p] # Absent /\ ~overwrite THEN Fail(g, "AlreadyExists")
    ELSE [g EXCEPT !.wt[p] = d]
LocalChecksumOf(g, p) ==
    IF g.wt[p] = Absent THEN Fail(g, "NotFound") ELSE g
LocalGlob(g) == g

\* GitSyncFileBackend info / stream_read: the auto-pull, then the Local
\* Store; stream_write: the Local Store, then the auto-push; checksum and
\* glob: the Local Store alone.
Info(g, p) ==
    LET g1 == IF AutoSync(g, autoPull) THEN Pull(g) ELSE g
    IN  IF Failed(g1) THEN g1 ELSE LocalInfoOf(g1, p)
StreamRead(g, p) ==
    LET g1 == IF AutoSync(g, autoPull) THEN Pull(g) ELSE g
    IN  IF Failed(g1) THEN g1 ELSE LocalRead(g1, p)
StreamWrite(g, p, d, overwrite) ==
    AfterWrite(LocalStreamWriteTo(g, p, d, overwrite), "Stream write", p)
Checksum(g, p) == LocalChecksumOf(g, p)
Glob(g) == LocalGlob(g)

\* A check that a merge is in progress, whatever the path.
AssertMerging(g, p) ==
    IF p \in Paths /\ g.mergeHead # {} THEN g ELSE Fail(g, "GitBackendError")
\* _assert_conflicted
AssertConflicted(g, p) ==
    IF p \in ConflictReport(g) THEN g ELSE Fail(g, "GitBackendError")

\* git checkout --ours / --theirs <path>: fails when that side has no
\* version of the path.
CheckoutSide(g, p, side) ==
    IF side = Absent THEN Fail(g, "GitBackendError")
    ELSE [g EXCEPT !.wt[p] = side]

ConflictAcceptLocal(g, p) ==
    LET g1 == AssertConflicted(g, p)
        g2 == IF Failed(g1) THEN g1
              ELSE CheckoutSide(g1, p, TreeOf(g1, g1.HEAD)[p])
    IN  IF Failed(g2) THEN g2 ELSE AddPath(g2, p)

ConflictAcceptRemote(g, p) ==
    LET g1 == AssertConflicted(g, p)
        g2 == IF Failed(g1) THEN g1
              ELSE CheckoutSide(g1, p, TreeOf(g1, TheirsOf(g1))[p])
    IN  IF Failed(g2) THEN g2 ELSE AddPath(g2, p)

ConflictResolve(g, p, d) ==
    LET g1 == AssertConflicted(g, p)
        g2 == IF Failed(g1) THEN g1 ELSE Update(g1, p, d)
    IN  IF Failed(g2) THEN g2 ELSE AddPath(g2, p)

\* The path arguments of the conflict operations, as strings: the conflicted
\* path p, another path q of the working tree, p in the root-relative form
\* (/p), p reached through "..", and p under the absolute path of the root.
ConflictArgs ==
    { <<"p">>,                     \* p
      <<"q">>,                     \* q
      <<"/", "p">>,                \* /p
      <<".", ".", "/", "p">>,      \* ../p
      <<"/", "r", "/", "p">> }     \* /r/p
\* The working tree holds no symbolic link.
NoLinks == [q \in {} |-> Dir]
\* relative.as_posix() for the paths of the working tree ("." for the root).
PathNames == (<< <<"p">> >> :> "p") @@ (<< <<"q">> >> :> "q")
AsPosix(rel) == IF rel \in DOMAIN PathNames THEN PathNames[rel] ELSE "."

\* _relative_path: an absolute path is taken as it is, any other is joined
\* to the root; the resolved path must lie in the root.
RelativePath(s) ==
    LET joined == IF StartsWith(s, <<Slash>>) THEN Components(s)
                  ELSE RootDir \o Components(s)
        candidate == Walk(NoLinks, <<>>, joined)
    IN  [ok |-> RelativeTo(candidate, RootDir),
         rel |-> IF RelativeTo(candidate, RootDir)
                 THEN AsPosix(SubSeq(candidate, Len(RootDir) + 1, Len(candidate)))
                 ELSE "outside"]

\* The conflict operations as the caller calls them, the path a string.
AcceptLocalAt(g, s) ==
    IF RelativePath(s).ok THEN ConflictAcceptLocal(g, RelativePath(s).rel)
    ELSE Fail(g, "PathOutsideRoot")
AcceptRemoteAt(g, s) ==
    IF RelativePath(s).ok THEN ConflictAcceptRemote(g, RelativePath(s).rel)
    ELSE Fail(g, "PathOutsideRoot")
ResolveAt(g, s, d) ==
    IF RelativePath(s).ok THEN ConflictResolve(g, RelativePath(s).rel, d)
    ELSE Fail(g, "PathOutsideRoot")

\* ------------------------------------------------ Sync Engine: the backend
BatchMessage == "Batch sync changes"
DefaultMessage == "Sync changes"

\* commit_message = message or "Sync changes"
CommitMessage(m) == IF m \in {None, ""} THEN DefaultMessage ELSE m
\* The message arguments callers give to push.
GivenMessages == {None, "", "Add notes"}

\* A sync that pushes first and pulls afterwards.
SyncPushFirst(g) ==
    LET a == Push(g, DefaultMessage)
    IN  IF Failed(a) THEN a ELSE Pull(a)
\* SyncFileBackend.sync: self.pull(); self.push()
Sync(g) ==
    LET a == Pull(g)
    IN  IF Failed(a) THEN a ELSE Push(a, DefaultMessage)

\* The thread and lock record of the one caller of the Git backend.
Caller == "t1"
CallerRecord == "r1"
CallerPid == "p1"

\* The backend and its repository as one value.
Cur ==
    [wt |-> wt, index |-> index, unmerged |-> unmerged, commits |-> commits,
     HEAD |-> HEAD, originRef |-> originRef, remoteHead |-> remoteHead,
     mergeHead |-> mergeHead, inSession |-> inSession,
     err |-> "ok", npull |-> 0, npush |-> 0, msg |-> "none"]

BaseTree(g) == TreeOf(g, MergeBase(g.commits, g.HEAD, g.remoteHead))
\* Paths changed since the last common commit both locally and on the remote.
ChangedBoth(g) ==
    {p \in Paths : /\ g.wt[p] # BaseTree(g)[p]
                   /\ TreeOf(g, g.remoteHead)[p] # BaseTree(g)[p]}
\* ... and changed to different contents.
ChangedApart(g) ==
    {p \in ChangedBoth(g) : g.wt[p] # TreeOf(g, g.remoteHead)[p]}

\* What is recorded about the operation just performed, g1 its result.
OpRecord(name, p, g1) ==
    [name |-> name, path |-> p, err |-> g1.err,
     npull |-> g1.npull, npush |-> g1.npush, msg |-> g1.msg]

NoOp ==
    [name |-> "none", path |-> "none", err |-> "ok", npull |-> 0, npush |-> 0,
     msg |-> "none"]

Install(g) ==
    /\ wt' = g.wt
    /\ index' = g.index
    /\ unmerged' = g.unmerged
    /\ commits' = g.commits
    /\ HEAD' = g.HEAD
    /\ originRef' = g.originRef
    /\ remoteHead' = g.remoteHead
    /\ mergeHead' = g.mergeHead
    /\ inSession' = g.inSession

\* An operation of the caller, outside or inside a session body.
Perform(name, p, g1) ==
    /\ pc[Caller] \in {"idle", "body"}
    /\ Len(g1.commits) <= MaxCommits
    /\ Install(g1)
    /\ lastOp' = OpRecord(name, p, g1)
    /\ UNCHANGED <<lockVars, autoPull, autoPush, remoteWrites, storeVars>>

GitCreate(p, d) == Perform("create", p, Create(Cur, p, d))
GitUpdate(p, d) == Perform("update", p, Update(Cur, p, d))
GitDelete(p) == Perform("delete", p, Delete(Cur, p))
GitRead(p) == Perform("read", p, Read(Cur, p))
GitPushOp == Perform("push", "none", Push(Cur, DefaultMessage))
\* push(message=m): the message argument is recorded with the operation.
GitPushWith(m) == Perform("push", m, Push(Cur, CommitMessage(m)))
GitPullOp == Perform("pull", "none", Pull(Cur))
GitSyncOp == Perform("sync", "none", Sync(Cur))
GitAcceptLocal(p) == Perform("accept_local", p, ConflictAcceptLocal(Cur, p))
GitAcceptRemote(p) == Perform("accept_remote", p, ConflictAcceptRemote(Cur, p))
GitResolve(p, d) == Perform("resolve", p, ConflictResolve(Cur, p, d))

GitInfo(p) == Perform("info", p, Info(Cur, p))
GitStreamRead(p) == Perform("stream_read", p, StreamRead(Cur, p))
GitStreamWrite(p, d, ow) == Perform("stream_write", p, StreamWrite(Cur, p, d, ow))
GitChecksum(p) == Perform("checksum", p, Checksum(Cur, p))
GitGlob == Perform("glob", "none", Glob(Cur))

GitAcceptLocalAt(s) ==
    Perform("accept_local", RelativePath(s).rel, AcceptLocalAt(Cur, s))
GitAcceptRemoteAt(s) ==
    Perform("accept_remote", RelativePath(s).rel, AcceptRemoteAt(Cur, s))
GitResolveAt(s, d) ==
    Perform("resolve", RelativePath(s).rel, ResolveAt(Cur, s, d))

\* A finally block that resets the flag and pushes nothing.
FinallyWithoutPush(g) == [g EXCEPT !.inSession = FALSE]
\* The finally block of sync_session: the batch push, then the flag reset
\* (skipped when the push raises).
Finally(g) ==
    LET g1 == IF autoPush THEN Push(g, BatchMessage) ELSE g
    IN  IF Failed(g1) THEN g1 ELSE [g1 EXCEPT !.inSession = FALSE]

\* FileLock taken by the caller: re-entry, or a new handle on the lock file.
CallerAcquired(r) ==
    IF r.owner = CallerPid THEN [r EXCEPT !.count = r.count + 1]
    ELSE [file |-> FreshHandle, count |-> 1, owner |-> CallerPid]

\* A session that keeps the lock when it is left by an exception.
ExitRecordOnReturn(r, failed) == IF failed THEN r ELSE ReleasedRecord(r)
\* `with self._local_backend.sync_session(...)`: leaving the block releases
\* the lock however the block is left.
ExitRecord(r, failed) == ReleasedRecord(r)

InstallLock(r) ==
    /\ lock' = [lock EXCEPT ![CallerRecord] = r]
    /\ openFiles' = IF r.file = NoHandle THEN {} ELSE {r.file}
    /\ flockHolder' = r.file

\* Entering sync_session: lock, flag, entry pull; when the pull raises, the
\* finally block and the release of the lock run at once.
SessionEnter ==
    LET held == CallerAcquired(lock[CallerRecord])
        g0 == [Cur EXCEPT !.wt[LockFile] = IF @ = Absent THEN Empty ELSE @,
                          !.inSession = TRUE]
        g1 == IF autoPull THEN Pull(g0) ELSE g0
        g2 == IF Failed(g1) THEN Finally([g1 EXCEPT !.err = "ok"]) ELSE g1
        gEnd == IF Failed(g1) /\ ~Failed(g2) THEN Fail(g2, g1.err) ELSE g2
    IN  /\ pc[Caller] \in {"idle", "body"}
        /\ depth[Caller] < MaxDepth
        /\ Len(gEnd.commits) <= MaxCommits
        /\ Install(gEnd)
        /\ lastOp' = OpRecord("enter", "none", gEnd)
        /\ IF Failed(g1)
           THEN /\ InstallLock(ExitRecord(held, TRUE))
                /\ UNCHANGED <<pc, depth>>
           ELSE /\ InstallLock(held)
                /\ pc' = [pc EXCEPT ![Caller] = "body"]
                /\ depth' = [depth EXCEPT ![Caller] = @ + 1]
        /\ UNCHANGED <<recOf, pidOf, timeout, elapsed, attempts, outcome,
                       autoPull, autoPush, remoteWrites,
                       storeVars>>

\* Leaving the body, normally or with an exception raised in it.
SessionExit(raised) ==
    LET g1 == Finally(Cur)
        gEnd == IF raised /\ ~Failed(g1) THEN Fail(g1, "BodyError") ELSE g1
    IN  /\ pc[Caller] = "body"
        /\ Len(gEnd.commits) <= MaxCommits
        /\ Install(gEnd)
        /\ lastOp' = OpRecord(IF raised THEN "abort" ELSE "exit", "none", gEnd)
        /\ InstallLock(ExitRecord(lock[CallerRecord], Failed(gEnd)))
        /\ depth' = [depth EXCEPT ![Caller] = @ - 1]
        /\ pc' = [pc EXCEPT ![Caller] = IF depth[Caller] > 1 THEN "body" ELSE "idle"]
        /\ UNCHANGED <<recOf, pidOf, timeout, elapsed, attempts, outcome,
                       autoPull, autoPush, remoteWrites,
                       storeVars>>

\* Another clone creates the branch on the remote, off the first commit, with
\* a commit changing path p.
RemoteBranch(p, d) ==
    LET t == commits[1].tree
    IN  /\ remoteHead = NoCommit
        /\ remoteWrites < MaxRemoteWrites
        /\ Len(commits) < MaxCommits
        /\ t[p] # d
        /\ commits' = Append(commits, [tree |-> [t EXCEPT ![p] = d],
                                       parents |-> {1}])
        /\ remoteHead' = Len(commits) + 1
        /\ remoteWrites' = remoteWrites + 1
        /\ lastOp' = [NoOp EXCEPT !.name = "remote", !.path = p]
        /\ UNCHANGED <<lockVars, autoPull, autoPush, inSession, wt, index,
                       unmerged, HEAD, originRef, mergeHead, storeVars>>

\* Another clone pushes a commit changing path p to the remote branch.
RemoteCommit(p, d) ==
    LET t == commits[remoteHead].tree
    IN  /\ remoteHead # NoCommit
        /\ remoteWrites < MaxRemoteWrites
        /\ Len(commits) < MaxCommits
        /\ t[p] # d
        /\ commits' = Append(commits, [tree |-> [t EXCEPT ![p] = d],
                                       parents |-> {remoteHead}])
        /\ remoteHead' = Len(commits) + 1
        /\ remoteWrites' = remoteWrites + 1
        /\ lastOp' = [NoOp EXCEPT !.name = "remote", !.path = p]
        /\ UNCHANGED <<lockVars, autoPull, autoPush, inSession, wt, index,
                       unmerged, HEAD, originRef, mergeHead, storeVars>>

\* A cloned repository, in step with the remote, no session open.
GitStart(ap, au, d) ==
    /\ autoPull = ap
    /\ autoPush = au
    /\ inSession = FALSE
    /\ wt = [p \in Paths |-> IF p = LockFile THEN Absent ELSE d]
    /\ index = wt
    /\ unmerged = {}
    /\ commits = << [tree |-> wt, parents |-> {}] >>
    /\ HEAD = 1
    /\ originRef = 1
    /\ remoteHead = 1
    /\ mergeHead = {}
    /\ remoteWrites = 0
    /\ lastOp = NoOp

\* A clone whose configured branch was created locally (checkout -b) off the
\* cloned commit: the remote has no such branch and there is no origin ref.
GitStartUnpublished(ap, au, d) ==
    /\ autoPull = ap
    /\ autoPush = au
    /\ inSession = FALSE
    /\ wt = [p \in Paths |-> IF p = LockFile THEN Absent ELSE d]
    /\ index = wt
    /\ unmerged = {}
    /\ commits = << [tree |-> wt, parents |-> {}] >>
    /\ HEAD = 1
    /\ originRef = NoCommit
    /\ remoteHead = NoCommit
    /\ mergeHead = {}
    /\ remoteWrites = 0
    /\ lastOp = NoOp

GitInit ==
    /\ StoreStart
    /\ LockStart(SharedLayout)
    /\ \E ap \in BOOLEAN, au \in BOOLEAN : GitStart(ap, au, BaseData)

GitNext ==
    \/ \E p \in UserPaths, d \in Data : GitCreate(p, d)
    \/ \E p \in UserPaths, d \in Data : GitUpdate(p, d)
    \/ \E p \in UserPaths : GitDelete(p)
    \/ \E p \in UserPaths : GitRead(p)
    \/ GitPushOp
    \/ GitPullOp
    \/ \E p \in UserPaths : GitAcceptLocal(p)
    \/ \E p \in UserPaths : GitAcceptRemote(p)
    \/ \E p \in UserPaths, d \in Data : GitResolve(p, d)
    \/ SessionEnter
    \/ \E raised \in BOOLEAN : SessionExit(raised)
    \/ \E p \in UserPaths, d \in RemoteData : RemoteCommit(p, d)

SpecGit == GitInit /\ [][GitNext]_vars

\* The whole interface of the backend: GitNext and the remaining Local Store
\* operations it passes on.
SyncNext ==
    \/ \E p \in UserPaths, d \in Data : GitCreate(p, d)
    \/ \E p \in UserPaths, d \in Data : GitUpdate(p, d)
    \/ \E p \in UserPaths : GitDelete(p)
    \/ \E p \in UserPaths : GitRead(p)
    \/ \E p \in UserPaths : GitInfo(p)
    \/ \E p \in UserPaths : GitStreamRead(p)
    \/ \E p \in UserPaths, d \in Data, ow \in BOOLEAN : GitStreamWrite(p, d, ow)
    \/ \E p \in UserPaths : GitChecksum(p)
    \/ GitGlob
    \/ GitPushOp
    \/ GitPullOp
    \/ \E p \in UserPaths : GitAcceptLocal(p)
    \/ \E p \in UserPaths : GitAcceptRemote(p)
    \/ \E p \in UserPaths, d \in Data : GitResolve(p, d)
    \/ SessionEnter
    \/ \E raised \in BOOLEAN : SessionExit(raised)
    \/ \E p \in UserPaths, d \in RemoteData : RemoteCommit(p, d)

SpecSync == GitInit /\ [][SyncNext]_vars


\* The caller working outside sessions, the conflict operations called with
\* path strings.
ConflictNext ==
    \/ \E p \in UserPaths, d \in Data : GitCreate(p, d)
    \/ \E p \in UserPaths, d \in Data : GitUpdate(p, d)
    \/ \E p \in UserPaths : GitDelete(p)
    \/ GitPushOp
    \/ GitPullOp
    \/ \E s \in ConflictArgs : GitAcceptLocalAt(s)
    \/ \E s \in ConflictArgs : GitAcceptRemoteAt(s)
    \/ \E s \in ConflictArgs, d \in Data : GitResolveAt(s, d)
    \/ \E p \in UserPaths, d \in RemoteData : RemoteCommit(p, d)

SpecConflict == GitInit /\ [][ConflictNext]_vars

\* The caller writing, pulling, pushing and calling sync outside sessions.
PullPushNext ==
    \/ \E p \in UserPaths, d \in Data : GitCreate(p, d)
    \/ \E p \in UserPaths, d \in Data : GitUpdate(p, d)
    \/ \E p \in UserPaths : GitDelete(p)
    \/ GitPushOp
    \/ GitPullOp
    \/ GitSyncOp
    \/ \E p \in UserPaths, d \in RemoteData : RemoteCommit(p, d)

SpecPullPush == GitInit /\ [][PullPushNext]_vars

\* The caller working in and between sessions, nested sessions included.
BatchNext ==
    \/ \E p \in UserPaths, d \in Data : GitCreate(p, d)
    \/ \E p \in UserPaths, d \in Data : GitUpdate(p, d)
    \/ \E p \in UserPaths : GitDelete(p)
    \/ \E p \in UserPaths : GitRead(p)
    \/ SessionEnter
    \/ \E raised \in BOOLEAN : SessionExit(raised)
    \/ \E p \in UserPaths, d \in RemoteData : RemoteCommit(p, d)

SpecBatch == GitInit /\ [][BatchNext]_vars

\* The caller working outside sessions on a clone whose branch may not be on
\* the remote yet.
BranchInit ==
    /\ StoreStart
    /\ LockStart(SharedLayout)
    /\ \E ap \in BOOLEAN, au \in BOOLEAN :
          GitStart(ap, au, BaseData) \/ GitStartUnpublished(ap, au, BaseData)
BranchNext ==
    \/ \E p \in UserPaths, d \in Data : GitCreate(p, d)
    \/ \E p \in UserPaths, d \in Data : GitUpdate(p, d)
    \/ \E p \in UserPaths : GitDelete(p)
    \/ GitPushOp
    \/ \E m \in GivenMessages : GitPushWith(m)
    \/ GitPullOp
    \/ \E p \in UserPaths : GitAcceptLocal(p)
    \/ \E p \in UserPaths : GitAcceptRemote(p)
    \/ \E p \in UserPaths, d \in RemoteData : RemoteBranch(p, d)
    \/ \E p \in UserPaths, d \in RemoteData : RemoteCommit(p, d)

SpecBranch == BranchInit /\ [][BranchNext]_vars


\* The ways a caller names the root: "/", ".", the empty string and the
\* absolute path of the root; and a file in it.
RootPaths == { <<"/">>, <<".">>, <<>>, Render(RootDir), <<"f">> }
RootNext ==
    \/ \E s \in RootPaths, rec \in BOOLEAN : LocalDeletePath(s, rec)
    \/ \E s \in RootPaths, ow \in BOOLEAN : LocalCreateFile(s, Bytes(<<121>>), ow)
    \/ \E s \in RootPaths, ow \in BOOLEAN : LocalCreateDirectory(s, ow)
    \/ \E s \in RootPaths, ow \in BOOLEAN : LocalStreamWrite(s, Bytes(<<121>>), ow)

\* ------------------------------------------ Sync Engine: reading git status
\* File names as characters: a, b and "a b".
FileNames == { <<"a">>, <<"b">>, <<"a", " ", "b">> }
\* The two-letter codes of the entries: the unmerged ones, then modified,
\* added, deleted and untracked.
UnmergedCodes ==
    { <<"U", "U">>, <<"A", "A">>, <<"D", "D">>, <<"A", "U">>, <<"U", "A">>,
      <<"D", "U">>, <<"U", "D">> }
OtherCodes ==
    { <<" ", "M">>, <<"M", " ">>, <<"A", " ">>, <<"D", " ">>, <<"?", "?">> }
StatusEntries == [code : UnmergedCodes \cup OtherCodes, name : FileNames]
\* What git status has to tell: entries of different paths.
StatusReports ==
    {es \in UNION {[1..n -> StatusEntries] : n \in 0..MaxEntries} :
        \A i, j \in DOMAIN es : i # j => es[i].name # es[j].name}

\* git prints a path holding a blank or another unusual character between
\* double quotes.
PorcelainPath(name) ==
    IF \E i \in DOMAIN name : name[i] = " "
    THEN <<"\"">> \o name \o <<"\"">>
    ELSE name
\* One line of `git status --porcelain`: XY, a blank, the path.
StatusLine(e) == e.code \o <<" ">> \o PorcelainPath(e.name)
StatusOutput(es) == [i \in DOMAIN es |-> StatusLine(es[i])]

\* code.strip() of a two-letter code.
StripCode(code) == SelectSeq(code, LAMBDA c : c # " ")
\* "U" in code or code in {"AA", "DD"}
IsConflictCode(code) ==
    \/ \E i \in DOMAIN code : code[i] = "U"
    \/ code \in { <<"A", "A">>, <<"D", "D">> }
\* conflict_report on the lines of the status output: code = line[:2],
\* rel_path = line[3:], the path relative to the root.
RECURSIVE ParseStatus(_)
ParseStatus(lines) ==
    IF lines = <<>> THEN <<>>
    ELSE LET line == Head(lines)
             code == SubSeq(line, 1, 2)
             found == IF Len(line) >= 3 /\ IsConflictCode(code)
                      THEN << [path |-> SubSeq(line, 4, Len(line)),
                               status |-> StripCode(code)] >>
                      ELSE <<>>
         IN  found \o ParseStatus(Tail(lines))

\* conflict_report called while git status has es to tell.
GitConflictReport(es) ==
    /\ lastCall' = [NoCall EXCEPT !.op = "conflict_report",
                                  !.args = es,
                                  !.value = ParseStatus(StatusOutput(es))]
    /\ UNCHANGED <<lockVars, gitVars, fs>>

StatusNext == \E es \in StatusReports : GitConflictReport(es)

\* ------------------------------------------------- Sync Engine: bring-up
Branches == {"main", "dev"}
\* HEAD of a repository without a commit.
Unborn == "unborn"
\* remote_url of the configuration, and another address.
ConfiguredUrl == "url"
OtherUrl == "old"
\* A file of the tree whose name is the name of a branch.
BranchLikeNames == {"dev"}

\* The working directory: missing, empty, holding files that are no
\* repository, or a repository with its origin address, checked-out branch,
\* local branches, remote-tracking branches and the file names of its tree.
Plain(kind, names) ==
    [kind |-> kind, origin |-> None, current |-> None, local |-> {},
     tracking |-> {}, names |-> names]
Repo(origin, current, local, tracking, names) ==
    [kind |-> "repo", origin |-> origin, current |-> current, local |-> local,
     tracking |-> tracking, names |-> names]
WorkDirs ==
    {Plain("missing", {}), Plain("empty", {}), Plain("files", {"mine"})}
    \cup {Repo(o, Unborn, {}, {}, {}) : o \in {None, OtherUrl, ConfiguredUrl}}
    \cup {r \in [kind : {"repo"}, origin : {None, OtherUrl, ConfiguredUrl},
                  current : Branches, local : SUBSET Branches,
                  tracking : {{}, {"main"}, Branches},
                  names : SUBSET BranchLikeNames] : r.current \in r.local}
\* The remote: whether it can be reached, its branches, the file names of
\* their tree.
Remotes ==
    {[reachable |-> FALSE, branches |-> {}, names |-> {}],
     [reachable |-> TRUE, branches |-> {}, names |-> {}]}
    \cup [reachable : {TRUE}, branches : {{"main"}, Branches},
          names : SUBSET BranchLikeNames]

\* git clone --branch b --single-branch
CloneSingleBranch(remote, b) ==
    [ok |-> remote.reachable /\ b \in remote.branches,
     repo |-> Repo(ConfiguredUrl, b, {b}, {b}, remote.names)]
\* git clone: every branch is tracked and the remote's HEAD (main) is
\* checked out; an empty remote gives a repository without a commit.
CloneFull(remote) ==
    [ok |-> remote.reachable,
     repo |-> IF remote.branches = {}
              THEN Repo(ConfiguredUrl, Unborn, {}, {}, {})
              ELSE Repo(ConfiguredUrl, "main", {"main"}, remote.branches,
                        remote.names)]
\* _clone_repository: the single-branch clone, then the full clone.
CloneRepository(remote, b) ==
    IF CloneSingleBranch(remote, b).ok THEN CloneSingleBranch(remote, b)
    ELSE CloneFull(remote)
\* _ensure_remote: git remote set-url origin / git remote add origin
EnsureRemote(repo) == [repo EXCEPT !.origin = ConfiguredUrl]

\* git checkout b: a local branch is switched to; a remote-tracking branch
\* is made local and switched to unless a file has that name (then git
\* refuses); with no such branch but a file of that name git restores the
\* file and answers 0; else it fails.
GitCheckout(repo, b) ==
    IF b \in repo.local THEN [ok |-> TRUE, repo |-> [repo EXCEPT !.current = b]]
    ELSE IF b \in repo.tracking
    THEN (IF b \in repo.names THEN [ok |-> FALSE, repo |-> repo]
          ELSE [ok |-> TRUE,
                repo |-> [repo EXCEPT !.current = b, !.local = @ \cup {b}]])
    ELSE [ok |-> b \in repo.names, repo |-> repo]
\* _checkout_branch: rev-parse --abbrev-ref HEAD (fails without a commit),
\* nothing to do on the branch itself, git checkout, else git checkout -b.
CheckoutBranch(repo, b) ==
    IF repo.current = Unborn THEN [ok |-> FALSE, repo |-> repo]
    ELSE IF repo.current = b THEN [ok |-> TRUE, repo |-> repo]
    ELSE IF GitCheckout(repo, b).ok THEN GitCheckout(repo, b)
    ELSE [ok |-> TRUE,
          repo |-> [repo EXCEPT !.current = b, !.local = @ \cup {b}]]

\* GitSyncFileBackend.__init__ on the working directory dir.
Construct(dir, remote, b) ==
    LET finish(repo) ==
            [outcome |-> IF CheckoutBranch(repo, b).ok THEN "ok"
                         ELSE "GitBackendError",
             dir |-> CheckoutBranch(repo, b).repo]
    IN  IF dir.kind = "repo" THEN finish(EnsureRemote(dir))
        ELSE IF dir.kind = "files" THEN [outcome |-> "AlreadyExists", dir |-> dir]
        ELSE IF CloneRepository(remote, b).ok
        THEN finish(CloneRepository(remote, b).repo)
        ELSE [outcome |-> "GitBackendError", dir |-> Plain("missing", {})]

GitConstruct(dir, remote, b) ==
    /\ lastCall' = [NoCall EXCEPT !.op = "init",
                                  !.args = <<dir, remote, b>>,
                                  !.value = Construct(dir, remote, b)]
    /\ UNCHANGED <<lockVars, gitVars, fs>>

BringUpNext ==
    \E dir \in WorkDirs, remote \in Remotes, b \in Branches :
        GitConstruct(dir, remote, b)

\* ---------------------------------------------------------- Specifications
LockInit ==
    /\ \E l \in Layouts : LockStart(l)
    /\ GitStart(FALSE, FALSE, BaseData)
    /\ StoreStart
SpecLock == LockInit /\ [][LockNext]_vars
StoreInit ==
    /\ LockStart(SharedLayout)
    /\ GitStart(FALSE, FALSE, BaseData)
    /\ StoreStart
SpecStore == StoreInit /\ [][StoreNext]_vars
SpecFiles == StoreInit /\ [][FilesNext]_vars
SpecNameless == StoreInit /\ [][NamelessNext]_vars
SpecContent == StoreInit /\ [][ContentNext]_vars
SpecSlash == StoreInit /\ [][SlashNext]_vars
SpecStatus == StoreInit /\ [][StatusNext]_vars
SpecRoot == StoreInit /\ [][RootNext]_vars
SpecBringUp == StoreInit /\ [][BringUpNext]_vars
SessionInit ==
    /\ \E l \in SessionLayouts : LockStart(l)
    /\ GitStart(FALSE, FALSE, BaseData)
    /\ StoreStart
SpecSession == SessionInit /\ [][SessionNext]_vars

\* ------------------------------------------------- Process Lock: the claims
\* The record of t is used by no other thread.
Unshared(t) == \A u \in Threads \ {t} : recOf[u] # recOf[t]
\* t is inside a body guarded by acquire.
InBody(t) == depth[t] > 0
\* The handle of t's record is open and holds the OS-level lock.
HoldsOsLock(t) ==
    /\ lock[recOf[t]].file # NoHandle
    /\ lock[recOf[t]].file \in openFiles
    /\ flockHolder = lock[recOf[t]].file
\* Every open handle is the handle of some record (nothing leaked).
NoStrayHandle == openFiles = {lock[r].file : r \in Records} \ {NoHandle}

\* C1: two lock records on the same lock file, each driven by one caller,
\* are never inside their guarded bodies at the same time, and a caller that
\* got past its lock attempt, or is inside its body, holds the OS-level lock
\* itself (so no other record holds it).
C1_LockExclusivity ==
    /\ \A a, b \in Threads :
          (recOf[a] # recOf[b] /\ Unshared(a) /\ Unshared(b))
              => ~(InBody(a) /\ InBody(b))
    /\ \A t \in Threads :
          (Unshared(t) /\ (InBody(t) \/ pc[t] = "own")) => HoldsOsLock(t)

\* C1 witness: one record is inside its body while the other's attempt on
\* the same lock file has just been refused.
C1_Witness ==
    \E a, b \in Threads :
        /\ recOf[a] # recOf[b]
        /\ InBody(a)
        /\ pc[b] = "fail"

\* C2: threads of one process sharing one backend never have their session
\* bodies overlap.
C2_SessionSerialisation ==
    \A a, b \in Threads :
        (a # b /\ recOf[a] = recOf[b]) => ~(InBody(a) /\ InBody(b))

\* C8: for a caller with its own record, the re-entry count equals the
\* number of bodies it is nested in and the OS-level lock stays held while
\* that is at least 1; a call made while already holding the lock never
\* enters the retry loop; after as many releases as acquires the record is
\* Idle with its handle closed.
C8_Reentry ==
    \A t \in Threads :
        Unshared(t) =>
            /\ InBody(t) =>
                  /\ lock[recOf[t]].count = depth[t]
                  /\ lock[recOf[t]].owner = pidOf[t]
                  /\ HoldsOsLock(t)
                  /\ ~InLoop(t)
            /\ pc[t] = "idle" =>
                  /\ lock[recOf[t]] = IdleRecord
                  /\ NoStrayHandle

\* C8 witness: a caller nested two deep in its own lock, the count at 2,
\* reached by a re-entrant acquire.
C8_Witness ==
    \E t \in Threads :
        /\ Unshared(t)
        /\ depth[t] = 2
        /\ lock[recOf[t]].count = 2
        /\ outcome[t] = "reentered"

\* C9: acquire called with timeout=None while another holder has the lock
\* does not fail.
C9_UnboundedWait ==
    \A t \in Threads :
        Unshared(t) => ~(timeout[t] = NoTimeout /\ outcome[t] = "lockerror")

\* C10: a timed acquire of an Idle record that ends in a timeout made at
\* least one attempt (exactly one when the timeout is 0), ended no earlier
\* than its timeout, and left its own record Idle with no handle open; such
\* a caller is never inside the body without holding the OS-level lock, and
\* the step that gives up leaves the holder of the OS-level lock as it was.
C10_TimeoutState ==
    \A t \in Threads :
        Unshared(t) =>
            /\ outcome[t] = "timeout" =>
                  /\ timeout[t] # NoTimeout
                  /\ elapsed[t] >= timeout[t]
                  /\ attempts[t] # "none"
                  /\ pc[t] = "idle"
                  /\ lock[recOf[t]] = IdleRecord
                  /\ NoStrayHandle
            /\ timeout[t] = 0 => attempts[t] # "many"
            /\ InBody(t) => HoldsOsLock(t)
C10_GiveUpStep ==
    \A t \in Threads :
        (Unshared(t) /\ pc[t] = "fail" /\ pc'[t] # "fail")
            => flockHolder' = flockHolder
C10_TimedAcquire == []C10_TimeoutState /\ [][C10_GiveUpStep]_vars

\* C10 witness: a timed acquire has timed out while the other record is
\* inside its body, holding the lock.
C10_Witness ==
    \E t, u \in Threads :
        /\ recOf[t] # recOf[u]
        /\ outcome[t] = "timeout"
        /\ timeout[t] = 1
        /\ InBody(u)
        /\ HoldsOsLock(u)

\* ---------------------------------------------------- Local Store: properties
\* A resolved path is the root or lies below it.
Within(c) == Len(c) >= Len(RootDir) /\ SubSeq(c, 1, Len(RootDir)) = RootDir
\* The arguments of the call made by this step whose resolution, in the file
\* system the call finds, lands outside the root.
Escaping ==
    {i \in 1..Len(lastCall'.args) :
        ~Within(EnsureWithinRoot(fs, lastCall'.args[i]).target)}
Contained == \A c \in lastCall.used : Within(c)

\* C6 (as stated): Containment and traversal rejection.  Every operation
\* given a path that resolves outside the root fails with PathOutsideRoot and
\* changes no file; every path an operation accepts resolves to the root or
\* below it.
C6_TraversalRejected ==
    /\ [][Escaping # {}
          => (lastCall'.outcome = "PathOutsideRoot" /\ fs' = fs)]_vars
    /\ []Contained

\* C6 (amended): Containment and traversal rejection.  Every operation but
\* checksum_many fails with PathOutsideRoot on a path that resolves outside
\* the root; checksum_many returns normally with no entry for such a path;
\* in both cases no file changes; every path an operation accepts resolves to
\* the root or below it.
C6_TraversalContained ==
    /\ [][Escaping # {}
          => /\ fs' = fs
             /\ IF lastCall'.op = "checksum_many"
                THEN /\ lastCall'.outcome = "ok"
                     /\ \A i \in Escaping : \A v \in lastCall'.value :
                            v[1] # lastCall'.args[i]
                ELSE lastCall'.outcome = "PathOutsideRoot"]_vars
    /\ []Contained

\* A write through the symbolic link that leads out of the root was refused.
C6_Witness ==
    /\ lastCall.op = "update"
    /\ lastCall.args = << <<"l", "/", "s">> >>
    /\ lastCall.outcome = "PathOutsideRoot"
    /\ fs[OtherDir \o << <<"s">> >>] = File(Secret)

\* ------------------------------------------------- Sync Engine: properties
ConflictOps == {"resolve", "accept_local", "accept_remote"}
FamilyOps == {"create", "update", "delete", "read"}

\* C3: Conflict resolution completeness.  A step that is conflict_resolve,
\* conflict_accept_local or conflict_accept_remote on a path listed by
\* conflict_report leaves the path out of conflict_report, whatever auto_pull
\* and auto_push are.
C3_ResolutionCompletes ==
    [][(/\ lastOp'.name \in ConflictOps
        /\ lastOp'.path \in ConflictReport(Cur))
       => lastOp'.path \notin ConflictReport(Cur)']_vars

\* C4: Session flag reset.  Whenever the caller is outside every
\* sync_session, whichever way the last one ended, the session flag is false.
C4_FlagReset == depth[Caller] = 0 => ~inSession

\* C5: Session batching.  A read-family or write-family operation performed
\* inside a session body calls neither pull nor push.
C5_BodySuppressed ==
    (depth[Caller] > 0 /\ lastOp.name \in FamilyOps)
    => (lastOp.npull = 0 /\ lastOp.npush = 0)

\* The explicit push of a backend whose path set ps is changed on both
\* sides fails and leaves the remote branch where it was.
PushRefused(ps) ==
    (lastOp'.name = "push" /\ ps # {})
    => (lastOp'.err # "ok" /\ remoteHead' = remoteHead)
\* The pull that follows such a push raises and conflict_report then lists
\* the paths.
PullConflicts(ps) ==
    (lastOp.name = "push" /\ lastOp'.name = "pull" /\ ps # {})
    => (lastOp'.err = "GitBackendError" /\ ps \subseteq ConflictReport(Cur)')

Diverged == IF mergeHead = {} THEN ChangedApart(Cur) ELSE {}

LeavesBody(t) == depth'[t] = depth[t] - 1
\* What leaving a body does to the lock: an inner body only gives back one
\* count; the outermost one leaves the record Idle, its handle closed and the
\* OS-level lock free.
LockGivenBack(t) ==
    LET r == recOf[t] IN
    IF depth[t] > 1
    THEN /\ lock'[r] = [lock[r] EXCEPT !.count = @ - 1]
         /\ flockHolder' = flockHolder
         /\ openFiles' = openFiles
    ELSE /\ lock'[r] = IdleRecord
         /\ flockHolder' = NoHandle
         /\ openFiles' = openFiles \ {lock[r].file}
\* Nobody but t is inside a body or about to enter one.
NobodyElseInside(t) ==
    \A u \in Threads \ {t} : ~InBody(u) /\ pc[u] # "own"
\* The OS-level lock is held only for a caller that is inside its body or
\* has just won the lock.
HeldForSomeoneInside ==
    flockHolder # NoHandle =>
        \E u \in Threads : /\ lock[recOf[u]].file = flockHolder
                           /\ (InBody(u) \/ pc[u] = "own")

\* C11: Release on failure of the body.  However a session body ends, by
\* returning or by raising (the exception reaches the caller), the lock is
\* given back in the same way and the files are as the body left them; the
\* OS-level lock is never held for a caller that is outside its body, so a
\* lock attempt made while nobody else is inside succeeds.
C11_ReleaseOnFailure ==
    /\ [][\A t \in Threads :
            LeavesBody(t) => /\ LockGivenBack(t)
                             /\ outcome'[t] \in {"raised", "released"}
                             /\ fs' = fs]_vars
    /\ [][\A t \in Threads :
            (pc[t] = "lock" /\ pc'[t] # "lock" /\ NobodyElseInside(t))
                => pc'[t] = "own"]_vars
    /\ [](HeldForSomeoneInside /\ NoStrayHandle)
    /\ [](\A t \in Threads :
            (depth[t] = 0 /\ outcome[t] \in {"raised", "released"})
                => (pc[t] = "idle" /\ lock[recOf[t]] = IdleRecord))

\* C11 witness: the body of one backend's session wrote f and then raised;
\* its record is Idle, the written content is there, and the other backend
\* is inside a session holding the lock.
C11_Witness ==
    \E t, u \in Threads :
        /\ t # u
        /\ outcome[t] = "raised"
        /\ depth[t] = 0
        /\ lock[recOf[t]] = IdleRecord
        /\ lastCall.op = "update"
        /\ lastCall.outcome = "ok"
        /\ fs[RootDir \o << <<"f">> >>] = File(<<121>>)
        /\ outcome[u] = "acquired"
        /\ InBody(u)
        /\ HoldsOsLock(u)

\* ------------------------------------------------ Auto-sync: properties
ReadOps == {"read", "info", "stream_read"}
WriteOps == {"create", "update", "delete", "stream_write"}
PlainOps == {"checksum", "glob"}
\* The errors of the Local Store, raised before any push.
LocalErrors == {"NotFound", "AlreadyExists"}
\* The caller is inside no sync_session.
NoSessionOpen == depth[Caller] = 0
\* The first word(s) of the commit message of each write operation.
VerbOf(name) ==
    CASE name = "create" -> "Create"
      [] name = "update" -> "Update"
      [] name = "delete" -> "Delete"
      [] name = "stream_write" -> "Stream write"

\* C12: Auto-pull.  With auto_pull enabled and no session open, a read, info
\* or stream_read calls pull exactly once, and what it then finds (the missing
\* path included) is what the pull left in the working tree; create, update,
\* delete, stream_write, checksum and glob never call pull; with auto_pull
\* disabled none of these operations calls pull.
C12_AutoPull ==
    [][/\ (lastOp'.name \in ReadOps /\ autoPull /\ NoSessionOpen)
            => /\ lastOp'.npull = 1
               /\ lastOp'.err = "ok" => wt'[lastOp'.path] # Absent
               /\ lastOp'.err = "NotFound" => wt'[lastOp'.path] = Absent
       /\ lastOp'.name \in WriteOps \cup PlainOps => lastOp'.npull = 0
       /\ (lastOp'.name \in ReadOps \cup WriteOps \cup PlainOps /\ ~autoPull)
            => lastOp'.npull = 0]_vars

\* C13: Auto-push.  With auto_push enabled and no session open, a create,
\* update, delete or stream_write whose local change succeeded calls push
\* exactly once, with the message "<verb> <path>", and a push that succeeds
\* has sent the change; when the local operation fails no push is called;
\* read, info, stream_read, checksum and glob never call push; with auto_push
\* disabled none of these operations calls push.
C13_AutoPush ==
    [][/\ (/\ lastOp'.name \in WriteOps
            /\ autoPush
            /\ NoSessionOpen
            /\ lastOp'.err \notin LocalErrors)
            => /\ lastOp'.npush = 1
               /\ lastOp'.msg = <<VerbOf(lastOp'.name), lastOp'.path>>
               /\ lastOp'.err = "ok"
                    => TreeOf(Cur, remoteHead)'[lastOp'.path] = wt'[lastOp'.path]
       /\ (lastOp'.name \in WriteOps /\ lastOp'.err \in LocalErrors)
            => lastOp'.npush = 0
       /\ lastOp'.name \in ReadOps \cup PlainOps => lastOp'.npush = 0
       /\ (lastOp'.name \in ReadOps \cup WriteOps \cup PlainOps /\ ~autoPush)
            => lastOp'.npush = 0]_vars

\* ------------------------------------------ Push and pull: preconditions
\* The step leaves the repository and the remote branch as they were.
RepositoryKept ==
    /\ index' = index
    /\ unmerged' = unmerged
    /\ commits' = commits
    /\ HEAD' = HEAD
    /\ mergeHead' = mergeHead
    /\ originRef' = originRef
    /\ remoteHead' = remoteHead

\* C14: Push precondition.  A push called while conflict_report is non-empty
\* (the explicit push, or the push an operation or a session makes) fails with
\* GitBackendError; nothing is staged, committed or sent: the index, the local
\* HEAD and the remote branch are unchanged.
C14_PushPrecondition ==
    [][(lastOp'.npush > 0 /\ ConflictReport(Cur) # {})
        => (lastOp'.err = "GitBackendError" /\ RepositoryKept)]_vars

\* C14 witness: an explicit push was refused while p was conflicted, p still
\* unmerged in the index and the merge result not committed.
C14_Witness ==
    /\ lastOp.name = "push"
    /\ lastOp.err = "GitBackendError"
    /\ "p" \in ConflictReport(Cur)
    /\ "p" \in unmerged
    /\ mergeHead # {}
    /\ remoteHead # HEAD

\* C15: Pull preconditions.  A pull (the explicit one, or the auto-pull of a
\* read) called while conflict_report is non-empty or `git status` lists any
\* entry fails with GitBackendError without fetching or merging: the local
\* HEAD, the remote-tracking ref, the index and the working tree are
\* unchanged.
C15_PullPreconditions ==
    [][(/\ lastOp'.name \in {"pull", "read"}
        /\ lastOp'.npull > 0
        /\ (ConflictReport(Cur) # {} \/ ~CleanWorkingTree(Cur)))
        => (lastOp'.err = "GitBackendError" /\ RepositoryKept /\ wt' = wt)]_vars

\* C15 witness: an explicit pull was refused because p had an uncommitted
\* change, while the remote branch held a commit not fetched yet.
C15_Witness ==
    /\ lastOp.name = "pull"
    /\ lastOp.err = "GitBackendError"
    /\ ConflictReport(Cur) = {}
    /\ wt["p"] # index["p"]
    /\ originRef # remoteHead
    /\ HEAD = originRef

\* --------------------------------------------- Conflict operations: the path
\* The step is a conflict operation on a path conflict_report does not list.
OnUnconflictedPath ==
    /\ lastOp'.name \in ConflictOps
    /\ lastOp'.path \notin ConflictReport(Cur)
\* Neither the working tree nor the index changes.
TreeAndIndexKept ==
    /\ wt' = wt
    /\ index' = index
    /\ unmerged' = unmerged

TargetNow == EnsureWithinRoot(fs, lastCall'.args[1])
Subtree(f, t) == [q \in {t} \cup Below(f, t) |-> f[q]]

\* C17: Idempotent directory creation.  create(p, is_directory=true) with
\* default arguments on a path that already is a directory succeeds and
\* leaves the directory and everything below it unchanged.
C17_IdempotentDirectoryCreation ==
    [][(/\ lastCall'.op = "create_directory"
        /\ ~lastCall'.flag
        /\ TargetNow.ok
        /\ IsDir(fs, TargetNow.target))
        => /\ lastCall'.outcome = "ok"
           /\ IsDir(fs', TargetNow.target)
           /\ Subtree(fs', TargetNow.target) = Subtree(fs, TargetNow.target)]_vars

\* C18: Empty path rejection.  Every operation on one path given an empty or
\* whitespace-only path fails with EmptyPath and changes nothing, and never
\* goes on to use the backend root.
C18_EmptyPathRejected ==
    [][(lastCall'.op # "checksum_many" /\ lastCall'.args[1] \in NamelessPaths)
        => /\ lastCall'.outcome = "EmptyPath"
           /\ fs' = fs
           /\ RootDir \notin lastCall'.used]_vars

\* The bytes the caller's data stands for: nothing, the byte "y", and the
\* two bytes of U+00E9 in UTF-8.
ExactContent(d) ==
    CASE d = NoData -> <<>>
      [] d = Bytes(<<121>>) -> <<121>>
      [] d = Text(<<233>>) -> <<195, 169>>
FileWrite == lastCall'.op \in {"create", "stream_write"}
FileAt(f, t) == Exists(f, t) /\ ~IsDir(f, t)
\* A file with the data is at the target, under directories, and every
\* entry that was there before is as it was.
FileLeft ==
    /\ lastCall'.outcome = "ok"
    /\ FileAt(fs', TargetNow.target)
    /\ fs'[TargetNow.target].data = ExactContent(lastCall'.data)
    /\ \A q \in Ancestry(TargetNow.target) : IsDir(fs', q)
    /\ \A q \in DOMAIN fs \ {TargetNow.target} : q \in DOMAIN fs' /\ fs'[q] = fs[q]
RefusedWith(how) == lastCall'.outcome = how /\ fs' = fs
\* The refusals of create and stream_write for a file, and of create for a
\* directory.
CreateRefusals ==
    /\ (FileWrite /\ TargetNow.ok /\ IsDir(fs, TargetNow.target))
            => RefusedWith("CannotOverwriteDirectory")
    /\ (FileWrite /\ TargetNow.ok /\ FileAt(fs, TargetNow.target) /\ ~lastCall'.flag)
            => RefusedWith("AlreadyExists")
    /\ (lastCall'.op = "create_directory" /\ TargetNow.ok
            /\ Exists(fs, TargetNow.target) /\ ~IsDir(fs, TargetNow.target))
            => RefusedWith("CannotOverwriteFile")
NothingInTheWay ==
    /\ FileWrite
    /\ TargetNow.ok
    /\ ~IsDir(fs, TargetNow.target)
    /\ ~(FileAt(fs, TargetNow.target) /\ ~lastCall'.flag)

ReadBack(f, s) == StoreRead(f, s).value
Readable(f, s) == StoreRead(f, s).outcome = "ok"
Writes == {"create", "update", "stream_write"}
\* create(p, d) succeeded and read(p) returns the bytes of d.
CreatedReadsBack ==
    (lastCall'.op = "create" /\ lastCall'.outcome = "ok")
        => /\ Readable(fs', lastCall'.args[1])
           /\ ReadBack(fs', lastCall'.args[1])
                = {<<lastCall'.args[1], ExactContent(lastCall'.data)>>}
\* A read returns what the file holds.
ReadReturnsContent ==
    (lastCall'.op = "read" /\ lastCall'.outcome = "ok")
        => lastCall'.value = ReadBack(fs, lastCall'.args[1])
\* The step is a successful write or delete whose path resolves to the
\* place the path s resolves to.
TargetsPlaceOf(s) ==
    /\ lastCall'.op \in Writes \cup {"delete"}
    /\ lastCall'.outcome = "ok"
    /\ TargetNow.target = EnsureWithinRoot(fs, s).target
\* The step is a successful delete of a directory above that place.
DeletesAbove(s) ==
    /\ lastCall'.op = "delete"
    /\ lastCall'.outcome = "ok"
    /\ TargetNow.target \in Ancestry(EnsureWithinRoot(fs, s).target)
ReadChanges(s) ==
    Readable(fs, s) /\ ~(Readable(fs', s) /\ ReadBack(fs', s) = ReadBack(fs, s))

\* C20 (as stated): Round-trip.  After a successful create(p, d) read(p)
\* returns exactly the bytes of d, the UTF-8 encoding of a text, and what
\* read(p) returns changes only by a write or delete that targets p.
C20_RoundTrip ==
    [][/\ CreatedReadsBack
       /\ ReadReturnsContent
       /\ \A s \in FilePaths : ReadChanges(s) => TargetsPlaceOf(s)]_vars

\* C20 (amended): Round-trip.  After a successful create(p, d) read(p)
\* returns exactly the bytes of d, the UTF-8 encoding of a text, and what
\* read(p) returns changes only by a write or delete that targets p or by
\* the delete of a directory above p.
C20_RoundTripBelowKeptDirectories ==
    [][/\ CreatedReadsBack
       /\ ReadReturnsContent
       /\ \A s \in FilePaths :
              ReadChanges(s) => (TargetsPlaceOf(s) \/ DeletesAbove(s))]_vars

\* C20 witness: after a text was created at a/n and other paths were worked
\* on, read(a/n) returned the two bytes of its UTF-8 encoding.
C20_Witness ==
    /\ lastCall.op = "read"
    /\ lastCall.args = << <<"a", "/", "n">> >>
    /\ lastCall.outcome = "ok"
    /\ lastCall.value = {<< <<"a", "/", "n">>, <<195, 169>> >>}
    /\ fs[RootDir \o << <<"f">> >>] = File(<<121>>)

\* ------------------------------------- Local Store: update, delete, reading
\* The bytes of the data of this step's call.
GivenBytes == ExactContent(lastCall'.data)
UpdateCall == lastCall'.op = "update" /\ TargetNow.ok
\* Only the content of the target differs.
OnlyContentSet(d) ==
    /\ DOMAIN fs' = DOMAIN fs
    /\ fs'[TargetNow.target] = File(d)
    /\ \A q \in DOMAIN fs \ {TargetNow.target} : fs'[q] = fs[q]

\* C21: Update.  update on an existing file sets its content to the old
\* content followed by the data when append is true and to the data alone
\* otherwise; on a missing path it fails with NotFound and on a directory
\* with CannotUpdateDirectory, leaving the store unchanged.
C21_Update ==
    [][UpdateCall =>
        IF ~Exists(fs, TargetNow.target) THEN RefusedWith("NotFound")
        ELSE IF IsDir(fs, TargetNow.target) THEN RefusedWith("CannotUpdateDirectory")
        ELSE /\ lastCall'.outcome = "ok"
             /\ OnlyContentSet(IF lastCall'.flag
                               THEN fs[TargetNow.target].data \o GivenBytes
                               ELSE GivenBytes)]_vars

DeleteCall == lastCall'.op = "delete" /\ TargetNow.ok
Doomed == {TargetNow.target} \cup Below(fs, TargetNow.target)
OthersUntouched ==
    /\ DOMAIN fs' \subseteq DOMAIN fs
    /\ \A q \in DOMAIN fs \ Doomed : q \in DOMAIN fs' /\ fs'[q] = fs[q]

\* C22: Delete.  delete fails with NotFound when the path is missing and
\* with DirectoryNotEmpty, removing nothing, when it is a non-empty directory
\* and recursive is false; otherwise it removes the entry and, for a
\* directory, all below it; every entry that is neither the path nor below
\* it is left as it was.
C22_Delete ==
    [][DeleteCall =>
        /\ OthersUntouched
        /\ IF ~Exists(fs, TargetNow.target) THEN RefusedWith("NotFound")
           ELSE IF IsDir(fs, TargetNow.target) /\ Below(fs, TargetNow.target) # {}
                   /\ ~lastCall'.flag
           THEN RefusedWith("DirectoryNotEmpty")
           ELSE /\ lastCall'.outcome = "ok"
                /\ DOMAIN fs' = DOMAIN fs \ Doomed]_vars

\* C22 witness: delete(d, recursive=True) removed the directory and the file
\* in it; the file beside it and the link are as they were.
C22_Witness ==
    /\ lastCall.op = "delete"
    /\ lastCall.args = << <<"d">> >>
    /\ lastCall.flag
    /\ lastCall.outcome = "ok"
    /\ RootDir \o << <<"d">> >> \notin DOMAIN fs
    /\ RootDir \o << <<"d">>, <<"g">> >> \notin DOMAIN fs
    /\ fs[RootDir \o << <<"f">> >>].kind = "file"
    /\ fs[RootDir \o << <<"k">> >>].kind = "link"

ListItems == 1..Len(lastCall'.args)
\* The listed path names a regular file of the store.
NamesFile(s) ==
    LET e == EnsureWithinRoot(fs, s) IN e.ok /\ FileAt(fs, e.target)

\* C23: checksum_many returns a mapping whose keys are exactly the listed
\* path strings, as given, that name an existing regular file, each with the
\* value checksum returns for it; missing paths and directories are passed
\* over without an error, and an empty list gives an empty mapping.
C23_ChecksumMany ==
    [][lastCall'.op = "checksum_many" =>
        /\ lastCall'.outcome = "ok"
        /\ fs' = fs
        /\ {v[1] : v \in lastCall'.value}
              = {lastCall'.args[i] : i \in {j \in ListItems : NamesFile(lastCall'.args[j])}}
        /\ \A v \in lastCall'.value :
              StoreRead(fs, v[1]).outcome = "ok" /\ StoreRead(fs, v[1]).value = {v}
        /\ lastCall'.args = <<>> => lastCall'.value = {}]_vars

\* C23 witness: checksum_many([f, d]) returned the digest of the file f alone.
C23_Witness ==
    /\ lastCall.op = "checksum_many"
    /\ lastCall.args = << <<"f">>, <<"d">> >>
    /\ lastCall.outcome = "ok"
    /\ lastCall.value = {<< <<"f">>, <<120>> >>}

RECURSIVE Joined(_)
Joined(chunks) == IF chunks = <<>> THEN <<>> ELSE Head(chunks) \o Joined(Tail(chunks))
\* The chunks this step's stream_read yielded.
Yielded == (CHOOSE v \in lastCall'.value : TRUE)[2]

\* C24: Streaming equivalence.  For a regular file and a chunk size of at
\* least 1, stream_read yields non-empty chunks whose concatenation is what
\* read returns; every chunk but the last has exactly chunk_size bytes and
\* the last has no more; an empty file yields no chunk.
C24_StreamingEquivalence ==
    [][(lastCall'.op = "stream_read" /\ NamesFile(lastCall'.args[1]) /\ lastCall'.size >= 1)
        => /\ lastCall'.outcome = "ok"
           /\ fs' = fs
           /\ StoreRead(fs, lastCall'.args[1]).value
                = {<<lastCall'.args[1], Joined(Yielded)>>}
           /\ \A i \in 1..Len(Yielded) :
                /\ Yielded[i] # <<>>
                /\ Len(Yielded[i]) <= lastCall'.size
                /\ i < Len(Yielded) => Len(Yielded[i]) = lastCall'.size
           /\ fs[TargetNow.target].data = <<>> => Yielded = <<>>]_vars

\* C24 witness: a file of three bytes was read in chunks of two: a chunk of
\* two bytes and a chunk of one.
C24_Witness ==
    /\ lastCall.op = "stream_read"
    /\ lastCall.size = 2
    /\ lastCall.outcome = "ok"
    /\ lastCall.value = {<< <<"f">>, << <<120, 121>>, <<121>> >> >>}
    /\ fs[RootDir \o << <<"f">> >>] = File(<<120, 121, 121>>)

\* -------------------------------------------- Local Store: leading slashes
\* Two results are the same but for the path string the values are keyed by.
SameResult(a, b) ==
    /\ a.fs = b.fs
    /\ a.outcome = b.outcome
    /\ a.used = b.used
    /\ {v[2] : v \in a.value} = {v[2] : v \in b.value}
\* Every operation gives for the one path what it gives for the other.
SameForAll(f, s, p) ==
    /\ \A d \in FilePayloads, ow \in BOOLEAN :
            SameResult(StoreCreate(f, s, d, ow), StoreCreate(f, p, d, ow))
    /\ \A ow \in BOOLEAN :
            SameResult(StoreCreateDirectory(f, s, ow), StoreCreateDirectory(f, p, ow))
    /\ SameResult(StoreRead(f, s), StoreRead(f, p))
    /\ \A d \in GivenPayloads, ap \in BOOLEAN :
            SameResult(StoreUpdate(f, s, d, ap), StoreUpdate(f, p, d, ap))
    /\ \A rec \in BOOLEAN : SameResult(StoreDelete(f, s, rec), StoreDelete(f, p, rec))
    /\ SameResult(StoreInfo(f, s), StoreInfo(f, p))
    /\ \A n \in ChunkSizes : SameResult(StoreStreamRead(f, s, n), StoreStreamRead(f, p, n))
    /\ \A d \in GivenPayloads, ow \in BOOLEAN :
            SameResult(StoreStreamWrite(f, s, d, ow), StoreStreamWrite(f, p, d, ow))
    /\ SameResult(StoreChecksumMany(f, <<s>>), StoreChecksumMany(f, <<p>>))
BeginsWithRoot(s) == StartsWith(s, Render(RootDir))

\* C25: Leading-slash normalisation.  A path with one or more leading
\* slashes that does not begin with the absolute root string gives, for every
\* operation, what the path without them gives; a path of slashes alone
\* addresses the root; "/../o/s" is rejected like "../o/s".
C25_LeadingSlashes ==
    /\ \A p \in PlainPaths, k \in 1..MaxSlashes :
            ~BeginsWithRoot(Slashed(p, k)) => SameForAll(fs, Slashed(p, k), p)
    /\ \A k \in 1..MaxSlashes :
            EnsureWithinRoot(fs, Slashes(k)) = [ok |-> TRUE, target |-> RootDir]
    /\ \A k \in 1..MaxSlashes :
            StoreRead(fs, Slashed(<<".", ".", "/", "o", "/", "s">>, k)).outcome
                = "PathOutsideRoot"
    /\ (lastCall.op \notin {"none", "checksum_many"}
            /\ lastCall.args[1] \in {Slashed(<<".", ".", "/", "o", "/", "s">>, k) :
                                        k \in 0..MaxSlashes})
        => lastCall.outcome = "PathOutsideRoot"

\* C25 witness: create(//m) made the file m of the root.
C25_Witness ==
    /\ lastCall.op = "create"
    /\ lastCall.args = << <<"/", "/", "m">> >>
    /\ lastCall.outcome = "ok"
    /\ lastCall.used = {RootDir \o << <<"m">> >>}
    /\ fs[RootDir \o << <<"m">> >>] = File(<<121>>)

\* ------------------------------------------------------- Sync Engine: sync
\* The repository after the step is the repository g.
RepositoryIs(g) ==
    /\ wt' = g.wt
    /\ index' = g.index
    /\ unmerged' = g.unmerged
    /\ commits' = g.commits
    /\ HEAD' = g.HEAD
    /\ originRef' = g.originRef
    /\ remoteHead' = g.remoteHead
    /\ mergeHead' = g.mergeHead
Pulled == Pull(Cur)

\* C26: sync performs pull and then push; when the pull fails no push is
\* attempted and the error of the pull is the error of sync.
C26_PullThenPush ==
    [][lastOp'.name = "sync" =>
        /\ lastOp'.npull = 1
        /\ IF Failed(Pulled)
           THEN /\ lastOp'.npush = 0
                /\ lastOp'.err = Pulled.err
                /\ RepositoryIs(Pulled)
           ELSE /\ lastOp'.npush = 1
                /\ lastOp'.err = Push(Pulled, DefaultMessage).err
                /\ RepositoryIs(Push(Pulled, DefaultMessage))]_vars

\* C26 witness: a sync whose pull failed on the caller's uncommitted change
\* while the remote had moved on; nothing was pushed.
C26_Witness ==
    /\ lastOp.name = "sync"
    /\ lastOp.err = "GitBackendError"
    /\ lastOp.npull = 1
    /\ lastOp.npush = 0
    /\ remoteHead # HEAD
    /\ wt # index

\* ------------------------------------------------ Sync Engine: sessions
LockFree ==
    /\ lock[CallerRecord] = IdleRecord
    /\ openFiles = {}
    /\ flockHolder = NoHandle

\* C27: Lock release by a Git session.  The lock taken by sync_session is
\* released on every exit path, the entry pull raising and the exit push
\* raising included; with no session left open the lock record is idle and
\* the lock file is free for another session.
C27_SessionLockReleased ==
    /\ [][(lastOp'.name = "enter" /\ lastOp'.err # "ok")
            => lock'[CallerRecord] = lock[CallerRecord]]_vars
    /\ [][lastOp'.name \in {"exit", "abort"}
            => lock'[CallerRecord] = ReleasedRecord(lock[CallerRecord])]_vars
    /\ [](depth[Caller] = 0 => LockFree)

\* C27 witness: the push at the exit of the only open session was rejected
\* and the lock is free.
C27_Witness ==
    /\ lastOp.name = "exit"
    /\ lastOp.err = "GitBackendError"
    /\ lastOp.npush = 1
    /\ depth[Caller] = 0
    /\ LockFree

\* The working tree holds what was cloned and nothing is staged or merging.
Unmodified ==
    /\ \A p \in UserPaths : wt[p] = TreeOf(Cur, HEAD)[p]
    /\ index = TreeOf(Cur, HEAD)
    /\ unmerged = {}
    /\ mergeHead = {}

\* C29: Lock file and clean working tree.  With auto_pull enabled, opening a
\* session on an unmodified working tree succeeds, the lock file made on
\* the way notwithstanding, and so does the pull of a read made on an
\* unmodified working tree with no session open.
C29_LockFileKeepsTreeClean ==
    [][(autoPull /\ Unmodified /\ depth[Caller] = 0 /\ ~inSession
            /\ lastOp'.name \in {"enter", "read"})
        => (lastOp'.npull = 1 /\ lastOp'.err = "ok")]_vars

\* C30: Nested sessions.  While a session is open the session flag is true,
\* after a nested session has exited too; operations in a session body make
\* no pull or push of their own; the flag becomes false only when the
\* outermost session exits.
C30_FlagUntilOutermostExit ==
    [][/\ depth'[Caller] >= 1 => inSession'
       /\ (pc[Caller] = "body" /\ lastOp'.name \in {"create", "update", "delete", "read"})
            => (lastOp'.npull = 0 /\ lastOp'.npush = 0)
       /\ (inSession /\ ~inSession') => depth'[Caller] = 0]_vars

\* ------------------------------------------- Process Lock: the lock record
\* No thread is between the start and the end of an acquire call.
Quiescent == \A t \in Threads : ~InLoop(t)
SaysHeld(r) == lock[r].owner # None /\ lock[r].count >= 1
HandleHoldsLock(r) ==
    /\ lock[r].file # NoHandle
    /\ lock[r].file \in openFiles
    /\ flockHolder = lock[r].file

\* C28: Lock record consistency.  Whenever no acquire call is under way,
\* whatever the interleaving of the acquire and release calls of threads
\* sharing one FileLock, the record says Held (owner set, count at least 1)
\* exactly when the handle it stores is open and holds the lock of the
\* operating system, and the count is not negative.
C28_RecordConsistent ==
    (Quiescent /\ recOf = SharedLayout.recOf)
        => /\ SaysHeld("r1") <=> HandleHoldsLock("r1")
           /\ lock["r1"].count >= 0

\* ------------------------------------------- Sync Engine: leaving a session
\* The step leaves a session: the entry pull raised, or the body was left.
SessionLeft ==
    \/ lastOp'.name = "enter" /\ lastOp'.err # "ok"
    \/ lastOp'.name \in {"exit", "abort"}
BatchPush == Push(Cur, BatchMessage)

\* C31: Exit push on every exit.  With auto_push enabled every way out of a
\* session makes exactly one push, with the message "Batch sync changes":
\* after a body that completed, after a body that raised (the push publishes
\* what the body wrote) and after an entry pull that failed; the error of a
\* failed push is the error the caller sees, the error of the body otherwise.
C31_ExitPushOnEveryExit ==
    [][(autoPush /\ SessionLeft) =>
        /\ lastOp'.npush = 1
        /\ lastOp'.msg = BatchMessage
        /\ lastOp'.name \in {"exit", "abort"} =>
             /\ RepositoryIs(BatchPush)
             /\ lastOp'.err = IF Failed(BatchPush) THEN BatchPush.err
                              ELSE IF lastOp'.name = "abort" THEN "BodyError"
                              ELSE "ok"]_vars

\* C31 witness: a body that wrote and then raised; the push at the exit
\* published its write and the caller sees the error of the body.
C31_Witness ==
    /\ autoPush
    /\ lastOp.name = "abort"
    /\ lastOp.err = "BodyError"
    /\ lastOp.npush = 1
    /\ remoteHead = HEAD
    /\ HEAD # 1
    /\ TreeOf(Cur, HEAD) = wt
    /\ wt["p"] # BaseData

\* ------------------------------------------- Sync Engine: read your writes
\* The caller's last operation wrote its path, with success and outside
\* every session, and the step reads that path.
ReadsOwnWrite ==
    /\ lastOp.name \in {"create", "update"}
    /\ lastOp.err = "ok"
    /\ depth[Caller] = 0
    /\ ~inSession
    /\ lastOp'.name = "read"
    /\ lastOp'.path = lastOp.path

\* C32: Read-your-writes on the Sync Engine.  Whatever auto_pull and
\* auto_push are, outside a session and with no change on the remote in
\* between, a read that follows a successful create or update of the same
\* path succeeds and returns the data written.
C32_ReadYourWrites ==
    [][ReadsOwnWrite =>
        /\ lastOp'.err = "ok"
        /\ wt'[lastOp.path] = wt[lastOp.path]]_vars

\* --------------------------------------------------- Sync Engine: push, pull
\* The commit the push makes is on top of the old head and is ahead of origin.
CommittedAhead ==
    /\ Len(commits') = Len(commits) + 1
    /\ HEAD' = Len(commits')
    /\ commits'[HEAD'].parents = {HEAD}
    /\ commits'[HEAD'].tree = wt
    /\ originRef' = originRef
    /\ IsAncestor(commits', originRef', HEAD')
\* The working tree is as it was and `git status --porcelain` prints nothing.
TreeCleanAfter ==
    /\ wt' = wt
    /\ index' = wt
    /\ unmerged' = {}
    /\ \A p \in Paths : wt'[p] = commits'[HEAD'].tree[p]
\* The step is a push that had changes to commit and was turned down by the
\* remote.
PushTurnedDown ==
    /\ lastOp'.name = "push"
    /\ lastOp'.err # "ok"
    /\ ConflictReport(Cur) = {}
    /\ HasChanges(AddAll(Cur))
\* The state is the one a turned-down push left, and the step is a pull.
PullAfterTurnedDown ==
    /\ lastOp.name = "push"
    /\ lastOp.err # "ok"
    /\ ConflictReport(Cur) = {}
    /\ lastOp'.name = "pull"

\* C33: A failed push is not rolled back.  When push has committed the local
\* changes and the remote rejects the push, push raises the sync error, the
\* remote is unchanged, the commit stays on the local branch ahead of origin
\* and the working tree is clean; a pull made next passes its clean-tree
\* test, fetches and merges.
C33_FailedPushKept ==
    [][/\ PushTurnedDown =>
            /\ lastOp'.err = "GitBackendError"
            /\ remoteHead' = remoteHead
            /\ CommittedAhead
            /\ TreeCleanAfter
       /\ PullAfterTurnedDown =>
            /\ CleanWorkingTree(Cur)
            /\ originRef' = remoteHead
            /\ RepositoryIs(PullDirty(Cur))
            /\ lastOp'.err = "ok" \/ unmerged' # {}]_vars

\* C33 witness: a push committed the caller's change and was rejected because
\* the remote branch had moved on; the commit is kept and the tree is clean.
C33_Witness ==
    /\ lastOp.name = "push"
    /\ lastOp.err = "GitBackendError"
    /\ HEAD # originRef
    /\ ~IsAncestor(commits, remoteHead, HEAD)
    /\ commits[HEAD].parents = {originRef}
    /\ wt = commits[HEAD].tree
    /\ index = wt
    /\ CleanWorkingTree(Cur)

\* The step is a pull made with its preconditions met: no outstanding
\* conflict and a clean working tree.
PullAllowed ==
    /\ lastOp'.name = "pull"
    /\ ConflictReport(Cur) = {}
    /\ CleanWorkingTree(Cur)
\* The local branch, the index and the working tree are as they were.
BranchUnchanged ==
    /\ HEAD' = HEAD
    /\ commits' = commits
    /\ wt' = wt
    /\ index' = index
    /\ mergeHead' = mergeHead
\* The merge went through: the local branch holds the remote's commits and
\* the working tree is the tree of its head.
MergedIn ==
    /\ IsAncestor(commits', originRef', HEAD')
    /\ wt' = commits'[HEAD'].tree
    /\ index' = wt'
    /\ unmerged' = {}
\* The merge stopped on unmerged paths: they are reported, and pull and push
\* are refused from there.
LeftConflicted ==
    /\ mergeHead' = {originRef'}
    /\ ConflictReport(Cur)' = unmerged'
    /\ Failed(Pull(Cur))'
    /\ Failed(Push(Cur, DefaultMessage))'

\* C34: Pull outcomes.  A pull made with its preconditions met (a) succeeds
\* and leaves the local branch unchanged when origin/<branch> does not
\* exist, (b) succeeds when the merge makes no conflict, the working tree
\* then holding the remote's changes, (c) raises the sync error when the
\* merge leaves unmerged paths, the tree staying conflicted, the conflict
\* report non-empty and pull and push refused, (d) raises the sync error for
\* any other failure of the merge.
C34_PullOutcomes ==
    [][PullAllowed =>
        /\ lastOp'.npull = 1
        /\ lastOp'.err \in {"ok", "GitBackendError"}
        /\ originRef' = NoCommit => (lastOp'.err = "ok" /\ BranchUnchanged)
        /\ (originRef' # NoCommit /\ lastOp'.err = "ok") => MergedIn
        /\ unmerged' # {} => (lastOp'.err = "GitBackendError" /\ LeftConflicted)
        /\ (originRef' # NoCommit /\ lastOp'.err # "ok" /\ unmerged' = {})
             => BranchUnchanged]_vars

\* The step is a push by the caller with no conflict outstanding.
PushAllowed ==
    /\ lastOp'.name = "push"
    /\ ConflictReport(Cur) = {}
\* The message the commit of the step is to carry: the one given, or the
\* default when none (or an empty one) was given.
MessageDue ==
    IF lastOp'.path \in {"none", None, ""} THEN "Sync changes" ELSE lastOp'.path
\* Exactly one commit is made, of the whole working tree, on top of the head.
OneCommit ==
    /\ Len(commits') = Len(commits) + 1
    /\ SubSeq(commits', 1, Len(commits)) = commits
    /\ HEAD' = Len(commits')
    /\ commits'[HEAD'] = [tree |-> wt, parents |-> {HEAD} \cup mergeHead]
NoCommitMade ==
    /\ commits' = commits
    /\ HEAD' = HEAD
\* The remote takes the branch as the step leaves it.
RemoteTakes ==
    remoteHead = NoCommit \/ IsAncestor(commits', remoteHead, HEAD')

NothingToPush ==
    /\ ConflictReport(Cur) = {}
    /\ wt = TreeOf(Cur, HEAD)
    /\ originRef # NoCommit
    /\ IsAncestor(commits, HEAD, originRef)
\* The step changes nothing in the repository or on the remote.
NoOpSuccess ==
    /\ lastOp'.err = "ok"
    /\ commits' = commits
    /\ HEAD' = HEAD
    /\ remoteHead' = remoteHead
    /\ wt' = wt

\* C36: Push is idempotent.  A push with nothing to commit and no local
\* commit ahead of origin succeeds, makes no commit and leaves the local and
\* the remote branch as they were; so does the second of two pushes with no
\* local change in between.
C36_PushIdempotent ==
    [][(lastOp'.name = "push" /\ NothingToPush) => NoOpSuccess]_vars

\* --------------------------------------------- Sync Engine: conflict report
\* The conflicts reported for the path of entry e.
ReportedFor(e) ==
    {i \in DOMAIN lastCall.value : lastCall.value[i].path = e.name}

\* C37: Conflict classification.  conflict_report returns exactly one
\* conflict, carrying the path and the status code, for every entry of the
\* short status whose code contains U or is AA or DD, and none for any other
\* entry; a clean status gives an empty report.
C37_ConflictClassification ==
    lastCall.op = "conflict_report" =>
        LET es == lastCall.args
            inConflict == {i \in DOMAIN es : es[i].code \in UnmergedCodes}
        IN  /\ Len(lastCall.value) = Cardinality(inConflict)
            /\ \A i \in DOMAIN es :
                 IF i \in inConflict
                 THEN /\ Cardinality(ReportedFor(es[i])) = 1
                      /\ \A k \in ReportedFor(es[i]) :
                           lastCall.value[k].status = es[i].code
                 ELSE ReportedFor(es[i]) = {}

\* ------------------------------------------------- Local Store: the root
\* C38: The backend root survives.  After any sequence of Local Store
\* operations the root directory still exists: no delete, whatever its path
\* argument and whatever recursive is, removes the root itself, and no
\* create or stream_write replaces it.
C38_RootSurvives == Exists(fs, RootDir) /\ IsDir(fs, RootDir)

\* ------------------------------------------------- Sync Engine: bring-up
GivenDir == lastCall.args[1]
GivenRemote == lastCall.args[2]
GivenBranch == lastCall.args[3]
Built == lastCall.value

\* C39: Bring-up.  Constructing the Sync Engine on a directory holding a
\* repository reuses it and sets its origin to remote_url; on a non-empty
\* directory that is no repository it fails with AlreadyExists and leaves
\* the contents; on a missing or empty directory it clones, the single
\* branch first and everything if that fails; whenever it succeeds the
\* configured branch is checked out, created locally if it was missing.
C39_BringUp ==
    lastCall.op = "init" =>
        /\ GivenDir.kind = "repo" =>
             /\ Built.dir.kind = "repo"
             /\ Built.dir.origin = ConfiguredUrl
             /\ GivenDir.local \subseteq Built.dir.local
             /\ Built.dir.names = GivenDir.names
        /\ GivenDir.kind = "files" =>
             /\ Built.outcome = "AlreadyExists"
             /\ Built.dir = GivenDir
        /\ (GivenDir.kind \in {"missing", "empty"} /\ GivenRemote.reachable) =>
             /\ Built.dir.kind = "repo"
             /\ Built.dir.origin = ConfiguredUrl
             /\ Built.dir.tracking =
                  IF GivenBranch \in GivenRemote.branches THEN {GivenBranch}
                  ELSE GivenRemote.branches
        /\ Built.outcome = "ok" =>
             /\ Built.dir.current = GivenBranch
             /\ GivenBranch \in Built.dir.local

====
